---- MODULE Spec2Model ----
(***************************************************************************)
(* Flood-depth raster analysis of HCMUS-HQHuy/DATAFORLIFE.                 *)
(*                                                                         *)
(* Three groups of code are modelled:                                      *)
(*   - the raster service (floodDepth.service.ts and the stand-alone       *)
(*     TIF-to-PNG converter): value range, region statistics, global       *)
(*     statistics, heatmap alpha channel;                                  *)
(*   - the full-grid ward attribution (point-in-polygon scan);             *)
(*   - the seeded flood-fill ward attribution (ai.service.ts).             *)
(*                                                                         *)
(* Numbers.  A depth is an integer count of half metres, so the bucket     *)
(* limits 0.5, 1.0 and 2.0 of the source are 1, 2 and 4.  The three        *)
(* non-finite IEEE values are encoded by integers far outside the finite   *)
(* range; the Js* operators give them JavaScript's semantics.  Geographic  *)
(* coordinates are integers on a lattice on which a pixel is 2*HalfCell    *)
(* wide, so that every pixel centre is a lattice point and the arithmetic  *)
(* of the source is exact.  Floating-point rounding is not modelled.       *)
(***************************************************************************)
EXTENDS Integers, Sequences, FiniteSets, TLC

\* ------------------------------------------------------------------------
\* Bounds of the model
\* ------------------------------------------------------------------------
Width == 2
Height == 2
HalfCell == 1
MaxWards == 2
MaxPops == 6
MaxRequests == 1

\* ------------------------------------------------------------------------
\* JavaScript numbers
\* ------------------------------------------------------------------------
PInf == 1000000
NInf == -1000000
NaN == 2000000

HalfMetre == 1
OneMetre == 2 * HalfMetre
TwoMetres == 4 * HalfMetre
\* nodata_value: -9999.0 (metres)
NoDataValue == -9999 * OneMetre

IsFinite(v) == v # NaN /\ v # PInf /\ v # NInf
Abs(a) == IF a < 0 THEN -a ELSE a

JsGt(a, b) == a # NaN /\ b # NaN /\ a > b
JsLe(a, b) == a # NaN /\ b # NaN /\ a <= b
JsEq(a, b) == a # NaN /\ b # NaN /\ a = b

JsAdd(a, b) ==
    IF a = NaN \/ b = NaN THEN NaN
    ELSE IF a = PInf THEN (IF b = NInf THEN NaN ELSE PInf)
    ELSE IF a = NInf THEN (IF b = PInf THEN NaN ELSE NInf)
    ELSE IF b = PInf \/ b = NInf THEN b
    ELSE a + b

JsMin(a, b) == IF a = NaN \/ b = NaN THEN NaN ELSE IF a < b THEN a ELSE b
JsMax(a, b) == IF a = NaN \/ b = NaN THEN NaN ELSE IF a > b THEN a ELSE b

\* a / b for an integer count b >= 0; a finite quotient is kept in thousandths
\* of the depth unit, rounded half up
JsDiv(a, b) ==
    IF a = NaN THEN NaN
    ELSE IF b = 0 THEN (IF a = 0 THEN NaN ELSE IF a > 0 THEN PInf ELSE NInf)
    ELSE IF a = PInf \/ a = NInf THEN a
    ELSE (2000 * a + b) \div (2 * b)

Floor(a, b) == a \div b
Ceil(a, b) == -((-a) \div b)
Min2(a, b) == IF a < b THEN a ELSE b
Max2(a, b) == IF a > b THEN a ELSE b

RECURSIVE SumSeq(_)
SumSeq(s) == IF s = <<>> THEN 0 ELSE Head(s) + SumSeq(Tail(s))

\* array.filter(...).length: the number of positions kept
FilterLength(kept) == Cardinality(kept)

\* ------------------------------------------------------------------------
\* Geo-referencing shared by all components: metadata.bounds
\* ------------------------------------------------------------------------
MetaBounds ==
    [north |-> 2 * HalfCell * Height, south |-> 0,
     east |-> 2 * HalfCell * Width, west |-> 0]

VARIABLES
    \* raster service
    data,          \* Float32Array of the decoded raster, row-major
    noDataValue,   \* {} when the file declares no GDAL no-data, else {value}
    resp,          \* the last value returned by a service operation
    served,        \* number of service requests answered so far
    \* ward attribution, inputs
    matrix,        \* matrix[y][x], rows 0..Height-1, columns 0..Width-1
    wards,         \* the ward records in the order of response.wards
    \* full-grid scan
    sIdx,          \* position of the for-of loop over wardIds
    scanStatus,    \* depthStatus of the scan
    scanInside,    \* per processed ward, the pixels that passed `if (inside)`
    \* flood fill
    fIdx,          \* position of wardIds.forEach
    fPhase,        \* "start" (before a ward's callback) | "grow" (in its while
                   \* loop) | "aborted" (process returned undefined)
    idMatrix,
    queue,
    depthCount,
    fillStatus,    \* depthStatus of the flood fill
    pops,          \* history: iterations of the current ward's while loop
    popped,        \* history: every (ward position, pixel) dequeued and summed
    claims,        \* history: per pixel, the ward positions that pushed it
    accessed,      \* history: the (x, y) at which matrix or idMatrix was indexed
    warned,        \* history: the vertices logged as outside the image
    \* world file and bounds cache
    tfwFile,       \* the .tfw file: [exists, lines]
    cachedBounds,  \* <<>> for null, else <<bounds>>
    boundsResp,    \* the last outcome of a bounds operation
    firstCall,     \* history: <<>> or the file and outcome of the first
                   \* getHoChiMinhBounds call since the last clearBoundsCache
    \* raster cache shared by concurrent requests
    cachedData,    \* FALSE for null, TRUE once a decoded raster is stored
    reqs,          \* per request: the operation and where it stands
    decodes,       \* history: number of readFloodDepthData calls started
    \* point-in-polygon on its own
    testRing,      \* the polygon handed to isPointInPolygon
    testPoint,
    pip,           \* the last pair of results compared
    \* pixel to geographic position and back
    trip,          \* the grid, bounds and pixel mapped, and the results
    \* getFloodDepthMap by time frame, one basename
    tifs,          \* the contents the source TIF has had, the current one last
    metadataFile,  \* metadata.json
    png,           \* the heatmap PNG of the basename
    mapCalls,      \* per request: where its getFloodDepthMap stands
    mapLog,        \* history: the answers returned, in order of completion
    overlapped     \* history: a call began while another was suspended

rasterVars == <<data, noDataValue, resp, served>>
inputVars == <<matrix, wards>>
scanVars == <<sIdx, scanStatus, scanInside>>
fillVars ==
    <<fIdx, fPhase, idMatrix, queue, depthCount, fillStatus, pops, popped, claims,
      accessed, warned>>
boundsVars == <<tfwFile, cachedBounds, boundsResp, firstCall>>
cacheVars == <<cachedData, reqs, decodes>>
polyVars == <<testRing, testPoint, pip>>
tripVars == <<trip>>
mapVars == <<tifs, metadataFile, png, mapCalls, mapLog, overlapped>>
extraVars == <<tripVars, mapVars>>
utilVars == <<boundsVars, cacheVars, polyVars, extraVars>>
vars == <<rasterVars, inputVars, scanVars, fillVars, utilVars>>

\* ------------------------------------------------------------------------
\* Raster service: validity of a cell
\* ------------------------------------------------------------------------
\* Math.abs(value - noDataValue) < 0.0001, the sentinel being present
NearNoData(value, nd) ==
    \E s \in nd : IsFinite(value) /\ IsFinite(s)
                  /\ Abs(value - s) * 10000 < OneMetre

\* the three `continue` tests shared by every loop over the raster
IsValidCell(value, nd) == ~NearNoData(value, nd) /\ IsFinite(value)


\* ------------------------------------------------------------------------
\* RasterLoader: the three min/max loops
\* ------------------------------------------------------------------------
RECURSIVE readFloodDepthDataLoop(_, _, _, _)
readFloodDepthDataLoop(d, nd, i, acc) ==
    IF i > Len(d) THEN acc
    ELSE LET value == d[i] IN
         IF NearNoData(value, nd) THEN readFloodDepthDataLoop(d, nd, i + 1, acc)
         ELSE IF ~IsFinite(value) THEN readFloodDepthDataLoop(d, nd, i + 1, acc)
         ELSE readFloodDepthDataLoop(d, nd, i + 1,
                  [min |-> JsMin(acc.min, value),
                   max |-> JsMax(acc.max, value),
                   validPixels |-> acc.validPixels + 1])

\* readFloodDepthData with the `=== Infinity ? 0` / `=== -Infinity ? 5`
\* fallbacks left out
readFloodDepthDataNoFallback(d, nd) ==
    LET r == readFloodDepthDataLoop(d, nd, 1,
                 [min |-> PInf, max |-> NInf, validPixels |-> 0])
    IN [width |-> Width, height |-> Height, data |-> d, bounds |-> MetaBounds,
        noDataValue |-> nd,
        min |-> r.min,
        max |-> r.max,
        validPixels |-> r.validPixels]

\* FloodDepthService.readFloodDepthData: the returned FloodDepthData
readFloodDepthData(d, nd) ==
    LET r == readFloodDepthDataLoop(d, nd, 1,
                 [min |-> PInf, max |-> NInf, validPixels |-> 0])
    IN [width |-> Width, height |-> Height, data |-> d, bounds |-> MetaBounds,
        noDataValue |-> nd,
        min |-> IF r.min = PInf THEN 0 ELSE r.min,
        max |-> IF r.max = NInf THEN 5 * OneMetre ELSE r.max,
        validPixels |-> r.validPixels]

RECURSIVE getTifStatsLoop(_, _, _, _)
getTifStatsLoop(d, nd, i, acc) ==
    IF i > Len(d) THEN acc
    ELSE LET value == d[i] IN
         IF NearNoData(value, nd) THEN getTifStatsLoop(d, nd, i + 1, acc)
         ELSE IF ~IsFinite(value) THEN getTifStatsLoop(d, nd, i + 1, acc)
         ELSE IF JsEq(value, 0) THEN getTifStatsLoop(d, nd, i + 1, acc)
         ELSE getTifStatsLoop(d, nd, i + 1,
                  [min |-> JsMin(acc.min, value), max |-> JsMax(acc.max, value)])

\* FloodDepthService.getTifStats
getTifStats(d, nd) ==
    LET r == getTifStatsLoop(d, nd, 1, [min |-> PInf, max |-> NInf])
    IN [min |-> IF r.min = PInf THEN 0 ELSE r.min,
        max |-> IF r.max = NInf THEN 5 * OneMetre ELSE r.max]

RECURSIVE convertTifToPngLoop(_, _, _, _)
convertTifToPngLoop(d, nd, i, acc) ==
    IF i > Len(d) THEN acc
    ELSE LET value == d[i] IN
         IF NearNoData(value, nd) THEN convertTifToPngLoop(d, nd, i + 1, acc)
         ELSE IF ~IsFinite(value) THEN convertTifToPngLoop(d, nd, i + 1, acc)
         ELSE IF JsEq(value, 0) THEN convertTifToPngLoop(d, nd, i + 1, acc)
         ELSE convertTifToPngLoop(d, nd, i + 1,
                  [min |-> JsMin(acc.min, value),
                   max |-> JsMax(acc.max, value),
                   validPixels |-> acc.validPixels + 1])

\* convertTifToPng: the colour-scale domain computed before rendering
convertTifToPngRange(d, nd) ==
    LET r == convertTifToPngLoop(d, nd, 1,
                 [min |-> PInf, max |-> NInf, validPixels |-> 0])
    IN [min |-> IF r.min = PInf THEN 0 ELSE r.min,
        max |-> IF r.max = NInf THEN 5 * OneMetre ELSE r.max,
        validPixels |-> r.validPixels]

\* ------------------------------------------------------------------------
\* RegionAggregator: getRegionFloodDepth
\* ------------------------------------------------------------------------
\* the inner loop `for (x = startX; x < endX; x++)`: the (x, y) visited and
\* the index computed for each, in order
RECURSIVE regionRow(_, _, _, _)
regionRow(y, x, endX, acc) ==
    IF x >= endX THEN acc
    ELSE regionRow(y, x + 1, endX,
             Append(acc, [x |-> x, y |-> y, index |-> y * Width + x]))

\* the outer loop `for (y = startY; y < endY; y++)`
RECURSIVE regionRows(_, _, _, _, _)
regionRows(y, endY, startX, endX, acc) ==
    IF y >= endY THEN acc
    ELSE regionRows(y + 1, endY, startX, endX, regionRow(y, startX, endX, acc))

\* regionRect clamping each edge to the nearest row or column of the image,
\* so that a box outside the raster still selects the border cells
regionRectNearestEdge(b, tifBounds) ==
    LET latRange == tifBounds.north - tifBounds.south
        lngRange == tifBounds.east - tifBounds.west
        pixelNorth == Floor((tifBounds.north - b.north) * Height, latRange)
        pixelSouth == Ceil((tifBounds.north - b.south) * Height, latRange)
        pixelWest == Floor((b.west - tifBounds.west) * Width, lngRange)
        pixelEast == Ceil((b.east - tifBounds.west) * Width, lngRange)
    IN [startY |-> Max2(0, Min2(Height - 1, Min2(pixelNorth, pixelSouth))),
        endY |-> Min2(Height, Max2(1, Max2(pixelNorth, pixelSouth))),
        startX |-> Max2(0, Min2(Width - 1, Min2(pixelWest, pixelEast))),
        endX |-> Min2(Width, Max2(1, Max2(pixelWest, pixelEast)))]

\* regionRect taking Math.floor on all four edges
regionRectFloorOnly(b, tifBounds) ==
    LET latRange == tifBounds.north - tifBounds.south
        lngRange == tifBounds.east - tifBounds.west
        pixelNorth == Floor((tifBounds.north - b.north) * Height, latRange)
        pixelSouth == Floor((tifBounds.north - b.south) * Height, latRange)
        pixelWest == Floor((b.west - tifBounds.west) * Width, lngRange)
        pixelEast == Floor((b.east - tifBounds.west) * Width, lngRange)
    IN [startY |-> Max2(0, Min2(pixelNorth, pixelSouth)),
        endY |-> Min2(Height, Max2(pixelNorth, pixelSouth)),
        startX |-> Max2(0, Min2(pixelWest, pixelEast)),
        endX |-> Min2(Width, Max2(pixelWest, pixelEast))]

\* regionRect with the four Math.max / Math.min clamps left out
regionRectUnclamped(b, tifBounds) ==
    LET latRange == tifBounds.north - tifBounds.south
        lngRange == tifBounds.east - tifBounds.west
        pixelNorth == Floor((tifBounds.north - b.north) * Height, latRange)
        pixelSouth == Ceil((tifBounds.north - b.south) * Height, latRange)
        pixelWest == Floor((b.west - tifBounds.west) * Width, lngRange)
        pixelEast == Ceil((b.east - tifBounds.west) * Width, lngRange)
    IN [startY |-> Min2(pixelNorth, pixelSouth),
        endY |-> Max2(pixelNorth, pixelSouth),
        startX |-> Min2(pixelWest, pixelEast),
        endX |-> Max2(pixelWest, pixelEast)]

\* pixel rectangle of a query: floor/ceil, then clamp to the image
regionRect(b, tifBounds) ==
    LET latRange == tifBounds.north - tifBounds.south
        lngRange == tifBounds.east - tifBounds.west
        pixelNorth == Floor((tifBounds.north - b.north) * Height, latRange)
        pixelSouth == Ceil((tifBounds.north - b.south) * Height, latRange)
        pixelWest == Floor((b.west - tifBounds.west) * Width, lngRange)
        pixelEast == Ceil((b.east - tifBounds.west) * Width, lngRange)
    IN [startY |-> Max2(0, Min2(pixelNorth, pixelSouth)),
        endY |-> Min2(Height, Max2(pixelNorth, pixelSouth)),
        startX |-> Max2(0, Min2(pixelWest, pixelEast)),
        endX |-> Min2(Width, Max2(pixelWest, pixelEast))]

RECURSIVE MinSeq(_)
MinSeq(s) == IF Len(s) = 1 THEN s[1] ELSE JsMin(s[1], MinSeq(Tail(s)))
RECURSIVE MaxSeq(_)
MaxSeq(s) == IF Len(s) = 1 THEN s[1] ELSE JsMax(s[1], MaxSeq(Tail(s)))

\* Number(v.toFixed(3)) of a finite depth: thousandths of the depth unit
ToFixed3(v) == 1000 * v

isNoFlood(v) == JsEq(v, 0)
\* the shallow bucket with an open upper bound
isShallowBelowHalfMetre(v) == JsGt(v, 0) /\ JsGt(HalfMetre, v)
isShallow(v) == JsGt(v, 0) /\ JsLe(v, HalfMetre)
isModerate(v) == JsGt(v, HalfMetre) /\ JsLe(v, OneMetre)
isDeep(v) == JsGt(v, OneMetre) /\ JsLe(v, TwoMetres)
isVeryDeep(v) == JsGt(v, TwoMetres)

\* the five filter(...).length counts over the valid values
distribution(values) ==
    [no_flood |-> FilterLength({i \in DOMAIN values : isNoFlood(values[i])}),
     shallow |-> FilterLength({i \in DOMAIN values : isShallow(values[i])}),
     moderate |-> FilterLength({i \in DOMAIN values : isModerate(values[i])}),
     deep |-> FilterLength({i \in DOMAIN values : isDeep(values[i])}),
     very_deep |-> FilterLength({i \in DOMAIN values : isVeryDeep(values[i])})]

\* FloodDepthService.getRegionFloodDepth, the raster being loaded
getRegionFloodDepth(d, nd, b) ==
    LET floodData == readFloodDepthData(d, nd)
        r == regionRect(b, floodData.bounds)
        cells == regionRows(r.startY, r.endY, r.startX, r.endX, <<>>)
        defined(cell) == (cell.index + 1) \in DOMAIN d
        present == SelectSeq(cells, defined)
        read == [k \in DOMAIN present |-> present[k].index]
        scanned == [k \in DOMAIN read |-> d[read[k] + 1]]
        keep(value) == IsValidCell(value, nd)
        regionValues == SelectSeq(scanned, keep)
        totalPixels == Len(cells)
    IN IF Len(regionValues) = 0
       THEN [op |-> "region", success |-> TRUE, region_bounds |-> b,
             total_pixels |-> totalPixels, valid_pixels |-> 0,
             average_depth |-> 0, max_depth |-> 0, min_depth |-> 0,
             message |-> "No valid flood data found in selected region",
             read |-> read, cells |-> cells, rect |-> r]
       ELSE [op |-> "region", success |-> TRUE, region_bounds |-> b,
             total_pixels |-> totalPixels, valid_pixels |-> Len(regionValues),
             average_depth |-> JsDiv(SumSeq(regionValues), Len(regionValues)),
             max_depth |-> ToFixed3(MaxSeq(regionValues)),
             min_depth |-> ToFixed3(MinSeq(regionValues)),
             message |-> "",
             flood_distribution |-> distribution(regionValues),
             read |-> read, cells |-> cells, rect |-> r]

\* FloodDepthService.getFloodDepthStats
getFloodDepthStats(d, nd) ==
    LET floodData == readFloodDepthData(d, nd)
        keep(value) == IsValidCell(value, nd)
        validValues == SelectSeq(d, keep)
        totalValid == Len(validValues)
        dist == distribution(validValues)
    IN [op |-> "stats", success |-> TRUE,
        total_pixels |-> Width * Height, valid_pixels |-> totalValid,
        min_depth |-> floodData.min, max_depth |-> floodData.max,
        average_depth |-> JsDiv(SumSeq(validValues), totalValid),
        depth_distribution |-> dist,
        percentage |->
            [no_flood |-> JsDiv(100 * dist.no_flood, totalValid),
             shallow |-> JsDiv(100 * dist.shallow, totalValid),
             moderate |-> JsDiv(100 * dist.moderate, totalValid),
             deep |-> JsDiv(100 * dist.deep, totalValid),
             very_deep |-> JsDiv(100 * dist.very_deep, totalValid)]]

\* ------------------------------------------------------------------------
\* HeatmapRenderer: alpha channel of the RGBA buffer
\* ------------------------------------------------------------------------
\* the alpha rule with the `value === 0` test left out
createFloodDepthImageAlphaZeroOpaque(value, nd) ==
    IF NearNoData(value, nd) THEN 0
    ELSE IF ~IsFinite(value) THEN 0
    ELSE 180

\* createFloodDepthImage: pixels[pixelIndex + 3] for one value
createFloodDepthImageAlpha(value, nd) ==
    IF NearNoData(value, nd) THEN 0
    ELSE IF ~IsFinite(value) THEN 0
    ELSE IF JsEq(value, 0) THEN 0
    ELSE 180

\* createFloodDepthImage: for y, for x; acc.pixels starts as createImageData
RECURSIVE createFloodDepthImageLoop(_, _, _, _, _)
createFloodDepthImageLoop(d, nd, y, x, acc) ==
    IF y >= Height THEN acc
    ELSE IF x >= Width THEN createFloodDepthImageLoop(d, nd, y + 1, 0, acc)
    ELSE LET index == y * Width + x
             alpha == createFloodDepthImageAlpha(d[index + 1], nd)
         IN createFloodDepthImageLoop(d, nd, y, x + 1,
                [pixels |-> [acc.pixels EXCEPT ![index + 1] = alpha],
                 writes |-> [acc.writes EXCEPT ![index + 1] = @ + 1]])

createFloodDepthImage(floodData) ==
    createFloodDepthImageLoop(floodData.data, floodData.noDataValue, 0, 0,
        [pixels |-> [i \in 1..(Width * Height) |-> 0],
         writes |-> [i \in 1..(Width * Height) |-> 0]])

\* convertTifToPng: pixels[pixelIndex + 3] for one value
convertTifToPngAlpha(value, nd) ==
    IF NearNoData(value, nd) THEN 0
    ELSE IF ~IsFinite(value) THEN 0
    ELSE IF JsEq(value, 0) THEN 0
    ELSE 180

RECURSIVE convertTifToPngRender(_, _, _, _, _)
convertTifToPngRender(d, nd, y, x, acc) ==
    IF y >= Height THEN acc
    ELSE IF x >= Width THEN convertTifToPngRender(d, nd, y + 1, 0, acc)
    ELSE LET index == y * Width + x
             alpha == convertTifToPngAlpha(d[index + 1], nd)
         IN convertTifToPngRender(d, nd, y, x + 1,
                [pixels |-> [acc.pixels EXCEPT ![index + 1] = alpha],
                 writes |-> [acc.writes EXCEPT ![index + 1] = @ + 1]])

convertTifToPng(d, nd) ==
    LET range == convertTifToPngRange(d, nd)
        img == convertTifToPngRender(d, nd, 0, 0,
                   [pixels |-> [i \in 1..(Width * Height) |-> 0],
                    writes |-> [i \in 1..(Width * Height) |-> 0]])
    IN [min |-> range.min, max |-> range.max,
        pixels |-> img.pixels, writes |-> img.writes]

\* ------------------------------------------------------------------------
\* Inputs of the raster service
\* ------------------------------------------------------------------------
RasterValues ==
    {NoDataValue, -HalfMetre, 0, HalfMetre, OneMetre, TwoMetres, 5 * HalfMetre, NaN, PInf}

QueryLats ==
    {MetaBounds.south - 2, MetaBounds.south - 1, MetaBounds.south + 1,
     MetaBounds.south + 2, MetaBounds.north + 1, MetaBounds.north + 2}
QueryLons ==
    {MetaBounds.west - 2, MetaBounds.west - 1, MetaBounds.west + 1,
     MetaBounds.east + 1, MetaBounds.east + 2}

\* the bodies FloodDepthController.getRegionFloodDepth lets through
Queries ==
    {b \in [north : QueryLats, south : QueryLats, east : QueryLons, west : QueryLons] :
        b.north > b.south /\ b.east > b.west}

\* a decoded raster and its optional GDAL no-data value; the ward attribution
\* is not running
InitRaster ==
    /\ data \in [1..(Width * Height) -> RasterValues]
    /\ noDataValue \in {{}, {NoDataValue}}
    /\ resp = [op |-> "none"]
    /\ served = 0
    /\ matrix = <<>>
    /\ wards = <<>>
    /\ sIdx = 1
    /\ scanStatus = <<>>
    /\ scanInside = <<>>
    /\ fIdx = 1
    /\ fPhase = "start"
    /\ idMatrix = <<>>
    /\ queue = <<>>
    /\ depthCount = 0
    /\ fillStatus = <<>>
    /\ pops = 0
    /\ popped = <<>>
    /\ claims = <<>>
    /\ accessed = {}
    /\ warned = <<>>
    /\ tfwFile = [exists |-> FALSE, lines |-> <<>>]
    /\ cachedBounds = <<>>
    /\ boundsResp = [op |-> "none"]
    /\ firstCall = <<>>
    /\ cachedData = FALSE
    /\ reqs = <<>>
    /\ decodes = 0
    /\ testRing = <<>>
    /\ testPoint = [lat |-> 0, lon |-> 0]
    /\ pip = [op |-> "none"]
    /\ trip = [op |-> "none"]
    /\ tifs = <<>>
    /\ metadataFile = [kind |-> "missing"]
    /\ png = [exists |-> FALSE]
    /\ mapCalls = <<>>
    /\ mapLog = <<>>
    /\ overlapped = FALSE

\* ------------------------------------------------------------------------
\* Operations of the raster service
\* ------------------------------------------------------------------------
Answer(r) ==
    /\ served < MaxRequests
    /\ resp' = r
    /\ served' = served + 1
    /\ UNCHANGED <<utilVars, data, noDataValue, inputVars, scanVars, fillVars>>

ReadFloodDepthData ==
    LET f == readFloodDepthData(data, noDataValue)
    IN Answer([op |-> "read", min |-> f.min, max |-> f.max,
               validPixels |-> f.validPixels, bounds |-> f.bounds])

GetTifStats ==
    LET s == getTifStats(data, noDataValue)
    IN Answer([op |-> "tifstats", min |-> s.min, max |-> s.max])

ConvertTifToPng ==
    LET c == convertTifToPng(data, noDataValue)
    IN Answer([op |-> "convert", min |-> c.min, max |-> c.max,
               pixels |-> c.pixels, writes |-> c.writes])

CreateFloodDepthImage ==
    LET img == createFloodDepthImage(readFloodDepthData(data, noDataValue))
    IN Answer([op |-> "image", pixels |-> img.pixels, writes |-> img.writes])

GetRegionFloodDepth ==
    \E b \in Queries : Answer(getRegionFloodDepth(data, noDataValue, b))

GetFloodDepthStats == Answer(getFloodDepthStats(data, noDataValue))

NextRaster ==
    \/ ReadFloodDepthData
    \/ GetTifStats
    \/ ConvertTifToPng
    \/ CreateFloodDepthImage
    \/ GetRegionFloodDepth
    \/ GetFloodDepthStats

SpecRaster == InitRaster /\ [][NextRaster]_vars

\* ------------------------------------------------------------------------
\* Ward attribution: geometry
\* ------------------------------------------------------------------------
Pixels == {<<x, y>> : x \in 0..(Width - 1), y \in 0..(Height - 1)}

\* full-grid scan: geographic centre of pixel column x and of pixel row y
pixelLon(x) ==
    MetaBounds.west + ((2 * x + 1) * (MetaBounds.east - MetaBounds.west)) \div (2 * Width)
pixelLat(y) ==
    MetaBounds.north - ((2 * y + 1) * (MetaBounds.north - MetaBounds.south)) \div (2 * Height)

\* x < (xj - xi) * (y - yi) / (yj - yi) + xi, for yj # yi, without the division
leftOfEdge(x, y, xi, yi, xj, yj) ==
    IF yj - yi > 0
    THEN (x - xi) * (yj - yi) < (xj - xi) * (y - yi)
    ELSE (x - xi) * (yj - yi) > (xj - xi) * (y - yi)

RECURSIVE isPointInPolygonLoop(_, _, _, _, _)
isPointInPolygonLoop(point, polygon, i, j, inside) ==
    IF i > Len(polygon) THEN inside
    ELSE LET x == point.lon
             y == point.lat
             xi == polygon[i].lon
             yi == polygon[i].lat
             xj == polygon[j].lon
             yj == polygon[j].lat
             intersect == ((yi > y) # (yj > y)) /\ leftOfEdge(x, y, xi, yi, xj, yj)
         IN isPointInPolygonLoop(point, polygon, i + 1, i,
                IF intersect THEN ~inside ELSE inside)

\* ray casting that pairs each vertex with its predecessor in the list only,
\* leaving out the edge from the last vertex back to the first
isPointInPolygonOpenRing(point, polygon) ==
    isPointInPolygonLoop(point, polygon, 2, 1, FALSE)

\* even-odd ray casting over one ring
isPointInPolygon(point, polygon) ==
    isPointInPolygonLoop(point, polygon, 1, Len(polygon), FALSE)

\* latLonToPixel with Math.round in place of Math.floor
latLonToPixelRounded(lat, lon, bounds, width, height) ==
    [x |-> Floor(2 * (lon - bounds.west) * width + (bounds.east - bounds.west),
                 2 * (bounds.east - bounds.west)),
     y |-> Floor(2 * (bounds.north - lat) * height + (bounds.north - bounds.south),
                 2 * (bounds.north - bounds.south))]

\* flood fill: geographic position to pixel indexes
latLonToPixel(lat, lon, bounds, width, height) ==
    [x |-> Floor((lon - bounds.west) * width, bounds.east - bounds.west),
     y |-> Floor((bounds.north - lat) * height, bounds.north - bounds.south)]

\* ------------------------------------------------------------------------
\* Full-grid scan (process of the point-in-polygon variant)
\* ------------------------------------------------------------------------
\* wardData.members.filter(role outer, type way, more than two vertices);
\* `member.geometry?.length > 2` is false for a member without geometry
outerWaysOf(wardData) ==
    LET usable(member) == /\ member.role = "outer"
                          /\ member.type = "way"
                          /\ member.hasGeometry
                          /\ Len(member.geometry) > 2
    IN SelectSeq(wardData.members, usable)

\* the loop over outerWays that sets `inside` for one pixel centre
RECURSIVE insideLoop(_, _, _, _)
insideLoop(point, outerWays, k, inside) ==
    IF k > Len(outerWays) THEN inside
    ELSE insideLoop(point, outerWays, k + 1,
             IF isPointInPolygon(point, outerWays[k].geometry)
             THEN (IF inside THEN FALSE ELSE TRUE)
             ELSE inside)

insideWard(point, outerWays) == insideLoop(point, outerWays, 1, FALSE)

\* (depth <= 0 || depth === nodata_value) === false
scanAddsDepth(depth) == ~(JsLe(depth, 0) \/ JsEq(depth, NoDataValue))

\* for x, for y: current_depth, counted_pixels and the pixels found inside
RECURSIVE scanLoop(_, _, _, _, _)
scanLoop(m, outerWays, x, y, acc) ==
    IF x >= Width THEN acc
    ELSE IF y >= Height THEN scanLoop(m, outerWays, x + 1, 0, acc)
    ELSE LET depth == m[y][x]
             point == [lat |-> pixelLat(y), lon |-> pixelLon(x)]
         IN IF insideWard(point, outerWays)
            THEN scanLoop(m, outerWays, x, y + 1,
                     [current_depth |-> IF scanAddsDepth(depth)
                                        THEN JsAdd(acc.current_depth, depth)
                                        ELSE acc.current_depth,
                      added |-> IF scanAddsDepth(depth)
                                THEN acc.added \cup {<<x, y>>} ELSE acc.added,
                      counted_pixels |-> acc.counted_pixels + 1,
                      inside |-> acc.inside \cup {<<x, y>>}])
            ELSE scanLoop(m, outerWays, x, y + 1, acc)

\* accumulators declared once, before the loop over the wards: a ward goes
\* on from what the ward before it left
accumulatorsKept(previous) == previous

\* `let current_depth = 0, counted_pixels = 0` in the body of the loop over
\* the wards: nothing of the ward before is kept
accumulators(previous) ==
    [current_depth |-> 0, added |-> {}, counted_pixels |-> 0, inside |-> {}]

scanWard(m, outerWays, previous) ==
    scanLoop(m, outerWays, 0, 0, accumulators(previous))

\* current_depth / (counted_pixels || 1)
scanDepth(r) ==
    JsDiv(r.current_depth, IF r.counted_pixels = 0 THEN 1 ELSE r.counted_pixels)

\* one iteration of `for (const wardId of wardIds)`
ScanWard ==
    /\ sIdx <= Len(wards)
    /\ LET wardData == wards[sIdx]
           outerWays == outerWaysOf(wardData)
           previous == IF scanInside = <<>>
                       THEN [current_depth |-> 0, added |-> {}, counted_pixels |-> 0,
                             inside |-> {}]
                       ELSE scanInside[Len(scanInside)]
           r == scanWard(matrix, outerWays, previous)
       IN IF ~wardData.found \/ Len(outerWays) = 0
          THEN UNCHANGED <<scanStatus, scanInside>>
          ELSE /\ scanStatus' = Append(scanStatus,
                      [id |-> wardData.id, depth |-> scanDepth(r)])
               /\ scanInside' = Append(scanInside,
                      [pos |-> sIdx, inside |-> r.inside, added |-> r.added,
                       counted_pixels |-> r.counted_pixels,
                       current_depth |-> r.current_depth])
    /\ sIdx' = sIdx + 1
    /\ UNCHANGED <<utilVars, rasterVars, inputVars, fillVars>>

\* ------------------------------------------------------------------------
\* Seeded flood fill (process of ai.service.ts)
\* ------------------------------------------------------------------------
\* the bounds test with the east and south edges let through
inGridInclusive(x, y) == x >= 0 /\ x <= Width /\ y >= 0 /\ y <= Height

inGrid(x, y) == x >= 0 /\ x < Width /\ y >= 0 /\ y < Height

\* grid[y][x]; an index outside the arrays gives no number (it compares like
\* NaN: different from every value and not above 0)
cellAt(grid, x, y) ==
    IF y \in DOMAIN grid /\ x \in DOMAIN grid[y] THEN grid[y][x] ELSE NaN

\* depth !== nodata_value && depth > 0
fillValid(depth) == ~JsEq(depth, NoDataValue) /\ JsGt(depth, 0)

\* idMatrix[y][x] = id; queue.push({x, y})
claimPixel(st, x, y, id, pos) ==
    [st EXCEPT !.idMatrix = [st.idMatrix EXCEPT ![y][x] = id],
               !.queue = Append(st.queue, <<x, y>>),
               !.claims = [st.claims EXCEPT ![<<x, y>>] = Append(@, pos)]]

\* wardData.members.find(role outer, type way): index of the first, 0 if none
RECURSIVE findBoundary(_, _)
findBoundary(members, k) ==
    IF k > Len(members) THEN 0
    ELSE IF members[k].role = "outer" /\ members[k].type = "way" THEN k
    ELSE findBoundary(members, k + 1)

\* coords.forEach: seed the queue from the boundary vertices
RECURSIVE seedLoop(_, _, _, _, _, _)
seedLoop(m, coords, k, id, pos, st) ==
    IF k > Len(coords) THEN st
    ELSE LET p == latLonToPixel(coords[k].lat, coords[k].lon, MetaBounds, Width, Height)
             read == [st EXCEPT !.accessed = @ \cup {<<p.x, p.y>>}]
         IN IF inGrid(p.x, p.y)
            THEN IF cellAt(st.idMatrix, p.x, p.y) # 0
                 THEN seedLoop(m, coords, k + 1, id, pos, read)
                 ELSE IF fillValid(cellAt(m, p.x, p.y))
                      THEN seedLoop(m, coords, k + 1, id, pos,
                               claimPixel(read, p.x, p.y, id, pos))
                      ELSE seedLoop(m, coords, k + 1, id, pos, read)
            ELSE seedLoop(m, coords, k + 1, id, pos,
                     [st EXCEPT !.warned = Append(@,
                         [pos |-> pos, vertex |-> k, x |-> p.x, y |-> p.y])])

directions == <<[dx |-> -1, dy |-> 0], [dx |-> 1, dy |-> 0],
                [dx |-> 0, dy |-> -1], [dx |-> 0, dy |-> 1]>>

\* directions.forEach for the pixel just dequeued
RECURSIVE growLoop(_, _, _, _, _, _, _)
growLoop(m, x, y, k, id, pos, st) ==
    IF k > Len(directions) THEN st
    ELSE LET nx == x + directions[k].dx
             ny == y + directions[k].dy
             read == [st EXCEPT !.accessed = @ \cup {<<nx, ny>>}]
         IN IF inGrid(nx, ny)
            THEN IF fillValid(cellAt(m, nx, ny)) /\ cellAt(st.idMatrix, nx, ny) = 0
                 THEN growLoop(m, x, y, k + 1, id, pos,
                          claimPixel(read, nx, ny, id, pos))
                 ELSE growLoop(m, x, y, k + 1, id, pos, read)
            ELSE growLoop(m, x, y, k + 1, id, pos, st)

\* the callback of wardIds.forEach up to `let depthCount = 0`; without a
\* `geometry` member `boundary.geometry.map` throws, forEach is left, the
\* catch of process logs the error and process returns undefined
FillStartWard ==
    /\ fPhase = "start"
    /\ fIdx <= Len(wards)
    /\ LET wardData == wards[fIdx]
           b == findBoundary(wardData.members, 1)
       IN IF ~wardData.found \/ b = 0
          THEN /\ fIdx' = fIdx + 1
               /\ UNCHANGED <<fPhase, idMatrix, queue, claims, accessed, warned>>
          ELSE IF ~wardData.members[b].hasGeometry
          THEN /\ fPhase' = "aborted"
               /\ UNCHANGED <<fIdx, idMatrix, queue, claims, accessed, warned>>
          ELSE LET st == seedLoop(matrix, wardData.members[b].geometry, 1,
                                  wardData.id, fIdx,
                                  [idMatrix |-> idMatrix, queue |-> <<>>,
                                   claims |-> claims, accessed |-> accessed,
                                   warned |-> warned])
               IN /\ idMatrix' = st.idMatrix
                  /\ queue' = st.queue
                  /\ claims' = st.claims
                  /\ accessed' = st.accessed
                  /\ warned' = st.warned
                  /\ fPhase' = "grow"
                  /\ fIdx' = fIdx
    /\ depthCount' = 0
    /\ pops' = 0
    /\ UNCHANGED <<utilVars, rasterVars, inputVars, scanVars, fillStatus, popped>>

\* one iteration of `while (queue.length > 0)`
FillPop ==
    /\ fPhase = "grow"
    /\ Len(queue) > 0
    /\ pops < MaxPops
    /\ LET x == Head(queue)[1]
           y == Head(queue)[2]
           st == growLoop(matrix, x, y, 1, wards[fIdx].id, fIdx,
                          [idMatrix |-> idMatrix, queue |-> Tail(queue),
                           claims |-> claims, accessed |-> accessed \cup {<<x, y>>},
                           warned |-> warned])
       IN /\ depthCount' = JsAdd(depthCount, cellAt(matrix, x, y))
          /\ idMatrix' = st.idMatrix
          /\ queue' = st.queue
          /\ claims' = st.claims
          /\ accessed' = st.accessed
          /\ warned' = st.warned
    /\ pops' = pops + 1
    /\ popped' = Append(popped, [pos |-> fIdx, x |-> Head(queue)[1], y |-> Head(queue)[2]])
    /\ UNCHANGED <<utilVars, rasterVars, inputVars, scanVars, fIdx, fPhase, fillStatus>>

\* depthStatus.push({id, depth: depthCount}) once the queue is empty
FillEndWard ==
    /\ fPhase = "grow"
    /\ Len(queue) = 0
    /\ fillStatus' = Append(fillStatus,
           [id |-> wards[fIdx].id, depth |-> depthCount])
    /\ fIdx' = fIdx + 1
    /\ fPhase' = "start"
    /\ UNCHANGED <<utilVars, rasterVars, inputVars, scanVars, idMatrix, queue, depthCount,
                   pops, popped, claims, accessed, warned>>

\* ------------------------------------------------------------------------
\* Inputs of the ward attribution
\* ------------------------------------------------------------------------
MatrixValues == {NoDataValue, 0, HalfMetre, OneMetre, NaN, PInf}

\* a vertex, in half cells east of the west edge and north of the south edge
P(e, n) ==
    [lat |-> MetaBounds.south + n * HalfCell, lon |-> MetaBounds.west + e * HalfCell]

RingLeft == <<P(0, 0), P(2, 0), P(2, 4), P(0, 4)>>
RingWhole == <<P(0, 0), P(4, 0), P(4, 4), P(0, 4)>>
RingTopRight == <<P(2, 2), P(4, 2), P(4, 4), P(2, 4)>>
RingTwoVertices == <<P(1, 3), P(3, 1)>>
\* a ring whose four vertices all fall in the top-left pixel
RingInCorner == <<P(0, 4), P(1, 4), P(1, 3), P(0, 3)>>

Outer(ring) ==
    [role |-> "outer", type |-> "way", hasGeometry |-> TRUE, geometry |-> ring]
Inner(ring) ==
    [role |-> "inner", type |-> "way", hasGeometry |-> TRUE, geometry |-> ring]
\* an outer way whose `geometry` member is absent
OuterNoGeometry ==
    [role |-> "outer", type |-> "way", hasGeometry |-> FALSE, geometry |-> <<>>]

\* what adminService.getBoard can return for the ids of response.wards
WardPool ==
    {[id |-> 1, found |-> TRUE, members |-> <<Outer(RingLeft)>>],
     [id |-> 2, found |-> TRUE, members |-> <<Outer(RingWhole)>>],
     [id |-> 3, found |-> TRUE, members |-> <<Outer(RingLeft), Outer(RingTopRight)>>],
     [id |-> 4, found |-> TRUE, members |-> <<Outer(RingWhole), Outer(RingLeft)>>],
     [id |-> 0, found |-> TRUE, members |-> <<Outer(RingWhole)>>],
     [id |-> 5, found |-> TRUE, members |-> <<Inner(RingLeft)>>],
     [id |-> 6, found |-> TRUE, members |-> <<Outer(RingTwoVertices)>>],
     [id |-> 8, found |-> TRUE, members |-> <<OuterNoGeometry>>],
     [id |-> 9, found |-> TRUE, members |-> <<Outer(RingInCorner)>>],
     [id |-> 0, found |-> TRUE, members |-> <<Outer(RingInCorner)>>],
     [id |-> 7, found |-> FALSE, members |-> <<>>]}

\* response.wards: relations with distinct ids, in any order
WardLists ==
    {w \in UNION {[1..n -> WardPool] : n \in 0..MaxWards} :
        \A i, j \in DOMAIN w : i # j => w[i].id # w[j].id}

\* process(matrix, width, height) of the full-grid scan is called: depthStatus
\* is empty; the claim grid of the flood fill stays in its initial state
InitScan ==
    /\ data = <<>>
    /\ noDataValue = {}
    /\ resp = [op |-> "none"]
    /\ served = 0
    /\ matrix \in [0..(Height - 1) -> [0..(Width - 1) -> MatrixValues]]
    /\ wards \in WardLists
    /\ sIdx = 1
    /\ scanStatus = <<>>
    /\ scanInside = <<>>
    /\ fIdx = 1
    /\ fPhase = "start"
    /\ idMatrix = [y \in 0..(Height - 1) |-> [x \in 0..(Width - 1) |-> 0]]
    /\ queue = <<>>
    /\ depthCount = 0
    /\ fillStatus = <<>>
    /\ pops = 0
    /\ popped = <<>>
    /\ claims = [p \in Pixels |-> <<>>]
    /\ accessed = {}
    /\ warned = <<>>
    /\ tfwFile = [exists |-> FALSE, lines |-> <<>>]
    /\ cachedBounds = <<>>
    /\ boundsResp = [op |-> "none"]
    /\ firstCall = <<>>
    /\ cachedData = FALSE
    /\ reqs = <<>>
    /\ decodes = 0
    /\ testRing = <<>>
    /\ testPoint = [lat |-> 0, lon |-> 0]
    /\ pip = [op |-> "none"]
    /\ trip = [op |-> "none"]
    /\ tifs = <<>>
    /\ metadataFile = [kind |-> "missing"]
    /\ png = [exists |-> FALSE]
    /\ mapCalls = <<>>
    /\ mapLog = <<>>
    /\ overlapped = FALSE

\* process(matrix, width, height) of the flood fill is called: depthStatus is
\* empty and idMatrix is filled with 0
InitFill ==
    /\ data = <<>>
    /\ noDataValue = {}
    /\ resp = [op |-> "none"]
    /\ served = 0
    /\ matrix \in [0..(Height - 1) -> [0..(Width - 1) -> MatrixValues]]
    /\ wards \in WardLists
    /\ sIdx = 1
    /\ scanStatus = <<>>
    /\ scanInside = <<>>
    /\ fIdx = 1
    /\ fPhase = "start"
    /\ idMatrix = [y \in 0..(Height - 1) |-> [x \in 0..(Width - 1) |-> 0]]
    /\ queue = <<>>
    /\ depthCount = 0
    /\ fillStatus = <<>>
    /\ pops = 0
    /\ popped = <<>>
    /\ claims = [p \in Pixels |-> <<>>]
    /\ accessed = {}
    /\ warned = <<>>
    /\ tfwFile = [exists |-> FALSE, lines |-> <<>>]
    /\ cachedBounds = <<>>
    /\ boundsResp = [op |-> "none"]
    /\ firstCall = <<>>
    /\ cachedData = FALSE
    /\ reqs = <<>>
    /\ decodes = 0
    /\ testRing = <<>>
    /\ testPoint = [lat |-> 0, lon |-> 0]
    /\ pip = [op |-> "none"]
    /\ trip = [op |-> "none"]
    /\ tifs = <<>>
    /\ metadataFile = [kind |-> "missing"]
    /\ png = [exists |-> FALSE]
    /\ mapCalls = <<>>
    /\ mapLog = <<>>
    /\ overlapped = FALSE

\* both algorithms are called on the same matrix and the same single ward
InitBoth ==
    /\ data = <<>>
    /\ noDataValue = {}
    /\ resp = [op |-> "none"]
    /\ served = 0
    /\ matrix \in [0..(Height - 1) -> [0..(Width - 1) -> MatrixValues]]
    /\ wards \in WardLists
    /\ Len(wards) = 1
    /\ sIdx = 1
    /\ scanStatus = <<>>
    /\ scanInside = <<>>
    /\ fIdx = 1
    /\ fPhase = "start"
    /\ idMatrix = [y \in 0..(Height - 1) |-> [x \in 0..(Width - 1) |-> 0]]
    /\ queue = <<>>
    /\ depthCount = 0
    /\ fillStatus = <<>>
    /\ pops = 0
    /\ popped = <<>>
    /\ claims = [p \in Pixels |-> <<>>]
    /\ accessed = {}
    /\ warned = <<>>
    /\ tfwFile = [exists |-> FALSE, lines |-> <<>>]
    /\ cachedBounds = <<>>
    /\ boundsResp = [op |-> "none"]
    /\ firstCall = <<>>
    /\ cachedData = FALSE
    /\ reqs = <<>>
    /\ decodes = 0
    /\ testRing = <<>>
    /\ testPoint = [lat |-> 0, lon |-> 0]
    /\ pip = [op |-> "none"]
    /\ trip = [op |-> "none"]
    /\ tifs = <<>>
    /\ metadataFile = [kind |-> "missing"]
    /\ png = [exists |-> FALSE]
    /\ mapCalls = <<>>
    /\ mapLog = <<>>
    /\ overlapped = FALSE

NextScan == ScanWard
NextFill == FillStartWard \/ FillPop \/ FillEndWard
NextBoth == ScanWard \/ FillStartWard \/ FillPop \/ FillEndWard

\* the full-grid scan alone, the flood fill alone, and both over one ward
SpecScan == InitScan /\ [][NextScan]_vars
SpecFill == InitFill /\ [][NextFill]_vars
SpecBoth == InitBoth /\ [][NextBoth]_vars

\* ------------------------------------------------------------------------
\* Claims about the ward attribution
\* ------------------------------------------------------------------------
centre(p) == [lat |-> pixelLat(p[2]), lon |-> pixelLon(p[1])]

\* C1: in the full-grid scan a pixel is classified inside a ward exactly when
\* its centre is inside at least one of the ward's usable outer rings (OR
\* across rings); a centre inside two outer rings still counts as inside.
C1_InsideIffInSomeRing ==
    \A k \in DOMAIN scanInside :
        LET outerWays == outerWaysOf(wards[scanInside[k].pos])
        IN \A p \in Pixels :
               (p \in scanInside[k].inside)
               <=> (\E r \in DOMAIN outerWays :
                        isPointInPolygon(centre(p), outerWays[r].geometry))

\* C2: in the flood fill every pixel is claimed by at most one ward and the
\* first claim wins: all claims of a pixel come from one ward and the claim
\* grid keeps the id of the first ward that claimed the pixel.
C2_FirstClaimWins ==
    \A p \in Pixels :
        /\ \A i, j \in DOMAIN claims[p] :
               wards[claims[p][i]].id = wards[claims[p][j]].id
        /\ claims[p] # <<>> => idMatrix[p[2]][p[1]] = wards[claims[p][1]].id

Neighbours(p) ==
    {q \in Pixels : Abs(q[1] - p[1]) + Abs(q[2] - p[2]) = 1}

RECURSIVE Reach(_, _)
Reach(S, R) ==
    LET R2 == R \cup {q \in S : \E p \in R : q \in Neighbours(p)}
    IN IF R2 = R THEN R ELSE Reach(S, R2)

FourConnected(S) == S # {} /\ Reach(S, {CHOOSE p \in S : TRUE}) = S

PositivePixels == {p \in Pixels : fillValid(matrix[p[2]][p[1]])}

\* the pixels the vertices of a ring fall in
VertexPixels(ring) ==
    {<<latLonToPixel(ring[k].lat, ring[k].lon, MetaBounds, Width, Height).x,
       latLonToPixel(ring[k].lat, ring[k].lon, MetaBounds, Width, Height).y>> :
        k \in DOMAIN ring}

\* the fixture of C3: one ward with a non-zero id and one usable outer ring,
\* every cell finite, the positive cells forming one 4-connected region, the
\* ring enclosing exactly the pixel centres of that region, and a vertex of
\* the ring lying on the region
SingleRegionFixture ==
    /\ Len(wards) = 1
    /\ wards[1].found
    /\ wards[1].id # 0
    /\ Len(wards[1].members) = 1
    /\ Len(outerWaysOf(wards[1])) = 1
    /\ \A p \in Pixels : IsFinite(matrix[p[2]][p[1]])
    /\ FourConnected(PositivePixels)
    /\ \A p \in Pixels :
           (p \in PositivePixels)
           <=> isPointInPolygon(centre(p), wards[1].members[1].geometry)
    /\ VertexPixels(wards[1].members[1].geometry) \cap PositivePixels # {}

BothFinished == sIdx > Len(wards) /\ fIdx > Len(wards)

\* C3: on a single-ward, single-region fixture the value reported by the
\* full-grid scan equals the value reported by the flood fill, within the
\* rounding of one thousandth.
C3_ScanEqualsFill ==
    (SingleRegionFixture /\ BothFinished)
    => Abs(scanStatus[1].depth - 1000 * fillStatus[1].depth) <= 1

summable(v) == IsFinite(v) /\ v # NoDataValue

\* C4: neither algorithm ever adds a pixel whose value is the no-data
\* sentinel or is non-finite to a ward's depth sum.
C4_OnlyValidValuesSummed ==
    /\ \A k \in DOMAIN scanInside :
           \A p \in scanInside[k].added : summable(matrix[p[2]][p[1]])
    /\ \A k \in DOMAIN popped : summable(matrix[popped[k].y][popped[k].x])

\* ------------------------------------------------------------------------
\* Claims about the raster service
\* ------------------------------------------------------------------------
bucketTotal(dist) ==
    dist.no_flood + dist.shallow + dist.moderate + dist.deep + dist.very_deep

\* C5: whenever a region query finds at least one valid pixel, the five
\* depth-distribution counts sum exactly to valid_pixels, negative valid
\* values included.
C5_BucketsSumToValidPixels ==
    (resp.op = "region" /\ resp.valid_pixels > 0)
        => bucketTotal(resp.flood_distribution) = resp.valid_pixels

\* C6: with zero valid pixels getRegionFloodDepth and getFloodDepthStats
\* return an explicit zero average, never NaN or Infinity.
C6_ZeroCountZeroAverage ==
    (resp.op \in {"region", "stats"} /\ resp.valid_pixels = 0)
        => resp.average_depth = 0

\* C6, full-grid part: a ward with no pixel inside is reported with depth 0.
C6_ScanZeroCountZeroAverage ==
    \A k \in DOMAIN scanInside :
        scanInside[k].counted_pixels = 0 => scanStatus[k].depth = 0

\* the query box has no point in common with the interior of the raster
QueryOutside(b) ==
    \/ b.south >= MetaBounds.north
    \/ b.north <= MetaBounds.south
    \/ b.west >= MetaBounds.east
    \/ b.east <= MetaBounds.west

\* C7: a query box entirely outside the raster bounds, on any side, is
\* answered with success, valid_pixels = 0, zero average/min/max and a
\* message, and no grid cell is read.
C7_OutsideQueryIsEmpty ==
    (resp.op = "region" /\ QueryOutside(resp.region_bounds))
        => /\ resp.success
           /\ resp.valid_pixels = 0
           /\ resp.total_pixels = 0
           /\ resp.average_depth = 0
           /\ resp.min_depth = 0
           /\ resp.max_depth = 0
           /\ resp.message # ""
           /\ resp.read = <<>>

C7_Witness ==
    /\ resp.op = "region"
    /\ QueryOutside(resp.region_bounds)
    /\ \E i \in DOMAIN data : IsValidCell(data[i], noDataValue)

\* the cases in which the renderer leaves a pixel fully transparent
transparentValue(v) ==
    \/ v \in noDataValue
    \/ v \in {NaN, PInf, NInf}
    \/ v = 0

\* C8: the renderer writes every pixel of the image exactly once; alpha is 0
\* for a value that is the no-data sentinel, non-finite or exactly 0, and 180
\* for every other value; no other alpha is produced.
C8_AlphaIsZeroOr180 ==
    resp.op \in {"image", "convert"}
        => \A i \in 1..(Width * Height) :
               /\ resp.writes[i] = 1
               /\ resp.pixels[i] = IF transparentValue(data[i]) THEN 0 ELSE 180

C8_Witness ==
    /\ resp.op = "image"
    /\ \E i \in DOMAIN data : data[i] = 0 /\ resp.pixels[i] = 0
    /\ \E i \in DOMAIN data : data[i] \in noDataValue /\ resp.pixels[i] = 0
    /\ \E i \in DOMAIN data : data[i] = NaN /\ resp.pixels[i] = 0
    /\ \E i \in DOMAIN data : resp.pixels[i] = 180

HasValidPixel == \E i \in DOMAIN data : IsValidCell(data[i], noDataValue)

\* C9: the value range of the loader has min <= max whenever the raster has
\* a valid pixel and is exactly min = 0, max = 5 (metres) when it has none.
C9_RangeOrdered ==
    resp.op \in {"read", "tifstats", "convert"}
        => /\ HasValidPixel => JsLe(resp.min, resp.max)
           /\ ~HasValidPixel => (resp.min = 0 /\ resp.max = 5 * OneMetre)

C9_Witness ==
    /\ resp.op = "read"
    /\ HasValidPixel
    /\ resp.min < resp.max
    /\ \E i \in DOMAIN data : ~IsValidCell(data[i], noDataValue)

\* C10: an exact-zero cell never becomes min or max: with zero cells and other
\* valid cells the range is taken over the other cells only, and a raster of
\* only zeros and invalid cells gets the default range.
C10_ZeroExcludedFromRange ==
    resp.op \in {"read", "tifstats", "convert"}
        => LET nonZero == {i \in DOMAIN data :
                              IsValidCell(data[i], noDataValue) /\ data[i] # 0}
           IN IF nonZero = {}
              THEN resp.min = 0 /\ resp.max = 5 * OneMetre
              ELSE /\ \E i \in nonZero : resp.min = data[i]
                   /\ \E i \in nonZero : resp.max = data[i]


\* ------------------------------------------------------------------------
\* World file (.tfw) and geographic bounds
\* ------------------------------------------------------------------------
\* one degree, in the unit of all bounds below (a millionth of a degree)
Degree == 1000000

\* DEFAULT_IMAGE_WIDTH, DEFAULT_IMAGE_HEIGHT
DefaultImageWidth == 595
DefaultImageHeight == 700

\* a line of the file: a number, a number followed by text ("2abc"), text
\* that starts with no number ("abc"), or a blank line
NumberLine(v) == [kind |-> "number", value |-> v]
NumberThenTextLine(v) == [kind |-> "number then text", value |-> v]
TextLine == [kind |-> "text", value |-> 0]
BlankLine == [kind |-> "blank", value |-> 0]

\* parseFloat: the leading number of the line, NaN when there is none
parseFloat(line) ==
    IF line.kind \in {"number", "number then text"} THEN line.value ELSE NaN

\* arithmetic on parsed parameters, which are finite or NaN
JsSub(a, b) == IF a = NaN \/ b = NaN THEN NaN ELSE a - b
JsMul(a, b) == IF a = NaN \/ b = NaN THEN NaN ELSE a * b
JsHalf(a) == IF a = NaN THEN NaN ELSE a \div 2

\* content.trim(): blank lines at both ends of the content disappear
RECURSIVE trimStart(_)
trimStart(lines) ==
    IF lines # <<>> /\ Head(lines).kind = "blank" THEN trimStart(Tail(lines))
    ELSE lines
RECURSIVE trimEnd(_)
trimEnd(lines) ==
    IF lines # <<>> /\ lines[Len(lines)].kind = "blank"
    THEN trimEnd(SubSeq(lines, 1, Len(lines) - 1))
    ELSE lines

\* content.trim().split(/\r?\n/): the empty string splits into one empty line
trimSplit(lines) ==
    LET t == trimEnd(trimStart(lines))
    IN IF t = <<>> THEN <<BlankLine>> ELSE t

\* parseTfwFile: throws, or returns the six parsed parameters
parseTfwFile(file) ==
    IF ~file.exists THEN [ok |-> FALSE, error |-> "TFW file not found"]
    ELSE LET lines == trimSplit(file.lines)
         IN IF Len(lines) < 6
            THEN [ok |-> FALSE, error |-> "Invalid TFW file"]
            ELSE [ok |-> TRUE,
                  value |-> [pixelSizeX |-> parseFloat(lines[1]),
                             rotationY |-> parseFloat(lines[2]),
                             rotationX |-> parseFloat(lines[3]),
                             pixelSizeY |-> parseFloat(lines[4]),
                             upperLeftX |-> parseFloat(lines[5]),
                             upperLeftY |-> parseFloat(lines[6])]]

\* proj4(sourceCrs, WGS84).forward on finite coordinates. The library is not
\* part of the repository: a fixed strictly increasing map of each axis
\* stands for it, from metres to millionths of a degree.
projForward(x, y) == [lon |-> 106 * Degree + x, lat |-> 10 * Degree + y]

\* transformer.forward([x, y]); on a coordinate that is not finite the library
\* either throws or returns NaN, which of the two is left open
forward(x, y, forwardThrows) ==
    IF x = NaN \/ y = NaN
    THEN IF forwardThrows
         THEN [ok |-> FALSE, error |-> "coordinates must be finite numbers"]
         ELSE [ok |-> TRUE, value |-> [lon |-> NaN, lat |-> NaN]]
    ELSE [ok |-> TRUE, value |-> projForward(x, y)]

\* calculateBoundsFromTfw
calculateBoundsFromTfw(file, imageWidth, imageHeight, forwardThrows) ==
    LET parsed == parseTfwFile(file)
    IN IF ~parsed.ok THEN parsed
       ELSE LET tfw == parsed.value
                utmWest == JsSub(tfw.upperLeftX, JsHalf(tfw.pixelSizeX))
                utmNorth == JsSub(tfw.upperLeftY, JsHalf(tfw.pixelSizeY))
                utmEast == JsAdd(utmWest, JsMul(imageWidth, tfw.pixelSizeX))
                utmSouth == JsAdd(utmNorth, JsMul(imageHeight, tfw.pixelSizeY))
                nw == forward(utmWest, utmNorth, forwardThrows)
                se == forward(utmEast, utmSouth, forwardThrows)
            IN IF ~nw.ok THEN nw
               ELSE IF ~se.ok THEN se
               ELSE [ok |-> TRUE,
                     value |-> [north |-> JsMax(nw.value.lat, se.value.lat),
                                south |-> JsMin(nw.value.lat, se.value.lat),
                                east |-> JsMax(nw.value.lon, se.value.lon),
                                west |-> JsMin(nw.value.lon, se.value.lon)]]

\* the fallback of getHoChiMinhBounds
HcmFallbackNorth == 11160447
HcmFallbackSouth == 10966051
HcmFallbackEast == 106539889
HcmFallbackWest == 106356584
HcmFallbackBounds ==
    [north |-> HcmFallbackNorth, south |-> HcmFallbackSouth,
     east |-> HcmFallbackEast, west |-> HcmFallbackWest]

\* getHoChiMinhBounds without the `if (cachedBounds)` shortcut
getHoChiMinhBoundsRecompute(cache, file, forwardThrows) ==
    LET c == calculateBoundsFromTfw(file, DefaultImageWidth,
                                    DefaultImageHeight, forwardThrows)
    IN IF c.ok THEN [value |-> c.value, cache |-> <<c.value>>]
       ELSE [value |-> HcmFallbackBounds, cache |-> <<HcmFallbackBounds>>]

\* getHoChiMinhBounds: the value returned and the cache it leaves
getHoChiMinhBounds(cache, file, forwardThrows) ==
    IF cache # <<>> THEN [value |-> cache[1], cache |-> cache]
    ELSE LET c == calculateBoundsFromTfw(file, DefaultImageWidth,
                                         DefaultImageHeight, forwardThrows)
         IN IF c.ok THEN [value |-> c.value, cache |-> <<c.value>>]
            ELSE [value |-> HcmFallbackBounds, cache |-> <<HcmFallbackBounds>>]


\* FloodDepthService.getMetadataBounds on a metadata.json that is missing,
\* unparsable, without a `bounds` member, or with one: <<>> stands for null
getMetadataBounds(metadata) ==
    IF metadata.kind = "bounds"
    THEN <<[north |-> metadata.bounds.north, south |-> metadata.bounds.south,
            east |-> metadata.bounds.east, west |-> metadata.bounds.west]>>
    ELSE <<>>

\* the fallback of readFloodDepthData when metadata.json gives no bounds,
\* rounded to a millionth of a degree
MetaFallbackNorth == 11159871
MetaFallbackSouth == 10375439
MetaFallbackEast == 107024459
MetaFallbackWest == 106357425

\* readFloodDepthData, first variant: the embedded transform is only tried
\* (getBoundingBox inside try/catch), the bounds come from metadata.json
readFloodDepthDataBounds(image, metadata) ==
    LET bbox == IF image.hasTransform THEN <<image.bbox>> ELSE <<>>
        fromMetadata == getMetadataBounds(metadata)
    IN [raised |-> FALSE,
        bounds |-> IF fromMetadata = <<>>
                   THEN [north |-> MetaFallbackNorth, south |-> MetaFallbackSouth,
                         east |-> MetaFallbackEast, west |-> MetaFallbackWest]
                   ELSE fromMetadata[1]]

\* the default region of the second variant: 11.2, 10.3, 107.1, 106.3
DefaultNorth == 11200000
DefaultSouth == 10300000
DefaultEast == 107100000
DefaultWest == 106300000
DefaultBounds ==
    [north |-> DefaultNorth, south |-> DefaultSouth,
     east |-> DefaultEast, west |-> DefaultWest]

\* Math.abs(v) > limit, false for NaN
absExceeds(v, limit) == v # NaN /\ Abs(v) > limit

\* readFloodDepthData, second variant: getBoundingBox is called outside any
\* inner try, so its exception is rethrown by the outer catch; bbox is
\* [west, south, east, north]
readFloodDepthDataBbox(image) ==
    IF ~image.hasTransform THEN [raised |-> TRUE, bounds |-> DefaultBounds]
    ELSE LET bbox == image.bbox
         IN [raised |-> FALSE,
             bounds |->
                 IF \/ absExceeds(bbox[1], 180 * Degree)
                    \/ absExceeds(bbox[2], 90 * Degree)
                    \/ absExceeds(bbox[3], 180 * Degree)
                    \/ absExceeds(bbox[4], 90 * Degree)
                 THEN DefaultBounds
                 ELSE [north |-> bbox[4], south |-> bbox[2],
                       east |-> bbox[3], west |-> bbox[1]]]

\* ------------------------------------------------------------------------
\* Inputs of the bounds operations
\* ------------------------------------------------------------------------
\* pixel sizes are even so that half a pixel is a whole number of units
GoodLines ==
    <<NumberLine(2), NumberLine(0), NumberLine(0), NumberLine(-2),
      NumberLine(1000), NumberLine(2000)>>
OtherGoodLines ==
    <<NumberLine(4), NumberLine(0), NumberLine(0), NumberLine(-4),
      NumberLine(3000), NumberLine(5000)>>

TfwContents ==
    {GoodLines, OtherGoodLines,
     [GoodLines EXCEPT ![1] = TextLine],
     [GoodLines EXCEPT ![2] = TextLine],
     [GoodLines EXCEPT ![3] = BlankLine],
     [GoodLines EXCEPT ![6] = NumberThenTextLine(2000)],
     <<>>,
     SubSeq(GoodLines, 1, 5),
     SubSeq(GoodLines, 1, 5) \o <<BlankLine>>,
     GoodLines \o <<BlankLine>>,
     GoodLines \o <<TextLine>>}

TfwFiles ==
    {[exists |-> FALSE, lines |-> <<>>]}
    \cup {[exists |-> TRUE, lines |-> c] : c \in TfwContents}

\* coordinates of the embedded bounding box: a plausible one, a projected
\* one, NaN; a longitude may also be plausible without being a latitude
BboxLons == {106500000, 1200 * Degree, NaN}
BboxLats == {10500000, 106500000, NaN}

Images ==
    {[hasTransform |-> FALSE, bbox |-> <<0, 0, 0, 0>>]}
    \cup {[hasTransform |-> TRUE, bbox |-> <<w, s, e, n>>] :
             w \in BboxLons, s \in BboxLats, e \in BboxLons, n \in BboxLats}

\* for the first variant, which only tries the embedded transform
TransformImages ==
    {[hasTransform |-> FALSE, bbox |-> <<0, 0, 0, 0>>],
     [hasTransform |-> TRUE, bbox |-> <<106500000, 10500000, 106500000, 10500000>>]}

NoBounds == [north |-> 0, south |-> 0, east |-> 0, west |-> 0]

MetadataFiles ==
    {[kind |-> k, bounds |-> NoBounds] : k \in {"missing", "unparsable", "no bounds"}}
    \cup {[kind |-> "bounds", bounds |-> b] :
             b \in {[north |-> 11159871, south |-> 10375439,
                     east |-> 107024459, west |-> 106357425],
                    [north |-> 1235 * Degree, south |-> 1148 * Degree,
                     east |-> 700 * Degree, west |-> 600 * Degree]}}

\* ------------------------------------------------------------------------
\* Bounds operations
\* ------------------------------------------------------------------------
InitBounds ==
    /\ tfwFile \in TfwFiles
    /\ cachedBounds = <<>>
    /\ boundsResp = [op |-> "none"]
    /\ firstCall = <<>>
    /\ data = <<>>
    /\ noDataValue = {}
    /\ resp = [op |-> "none"]
    /\ served = 0
    /\ matrix = <<>>
    /\ wards = <<>>
    /\ sIdx = 1
    /\ scanStatus = <<>>
    /\ scanInside = <<>>
    /\ fIdx = 1
    /\ fPhase = "start"
    /\ idMatrix = <<>>
    /\ queue = <<>>
    /\ depthCount = 0
    /\ fillStatus = <<>>
    /\ pops = 0
    /\ popped = <<>>
    /\ claims = <<>>
    /\ accessed = {}
    /\ warned = <<>>
    /\ cachedData = FALSE
    /\ reqs = <<>>
    /\ decodes = 0
    /\ testRing = <<>>
    /\ testPoint = [lat |-> 0, lon |-> 0]
    /\ pip = [op |-> "none"]
    /\ trip = [op |-> "none"]
    /\ tifs = <<>>
    /\ metadataFile = [kind |-> "missing"]
    /\ png = [exists |-> FALSE]
    /\ mapCalls = <<>>
    /\ mapLog = <<>>
    /\ overlapped = FALSE

ParseTfwFile ==
    /\ boundsResp' = [op |-> "parse", file |-> tfwFile, result |-> parseTfwFile(tfwFile)]
    /\ UNCHANGED <<extraVars, tfwFile, cachedBounds, firstCall, rasterVars, inputVars,
                   scanVars, fillVars, cacheVars, polyVars>>

GetHoChiMinhBounds ==
    /\ \E forwardThrows \in BOOLEAN :
           LET r == getHoChiMinhBounds(cachedBounds, tfwFile, forwardThrows)
           IN /\ cachedBounds' = r.cache
              /\ boundsResp' = [op |-> "hcm", file |-> tfwFile, raised |-> FALSE,
                                bounds |-> r.value]
              /\ firstCall' = IF firstCall = <<>>
                              THEN <<[file |-> tfwFile, bounds |-> r.value]>>
                              ELSE firstCall
    /\ UNCHANGED <<extraVars, tfwFile, rasterVars, inputVars, scanVars, fillVars,
                   cacheVars, polyVars>>

ClearBoundsCache ==
    /\ cachedBounds' = <<>>
    /\ firstCall' = <<>>
    /\ boundsResp' = [op |-> "clear"]
    /\ UNCHANGED <<extraVars, tfwFile, rasterVars, inputVars, scanVars, fillVars,
                   cacheVars, polyVars>>

\* the world file is replaced, removed or created by something else
WriteTfwFile ==
    /\ tfwFile' \in TfwFiles \ {tfwFile}
    /\ UNCHANGED <<extraVars, cachedBounds, boundsResp, firstCall, rasterVars, inputVars,
                   scanVars, fillVars, cacheVars, polyVars>>

ReadFloodDepthDataBounds ==
    /\ \E image \in TransformImages, metadata \in MetadataFiles :
           LET r == readFloodDepthDataBounds(image, metadata)
           IN boundsResp' = [op |-> "read bounds", image |-> image,
                             metadata |-> metadata, raised |-> r.raised,
                             bounds |-> r.bounds]
    /\ UNCHANGED <<extraVars, tfwFile, cachedBounds, firstCall, rasterVars, inputVars,
                   scanVars, fillVars, cacheVars, polyVars>>

ReadFloodDepthDataBbox ==
    /\ \E image \in Images :
           LET r == readFloodDepthDataBbox(image)
           IN boundsResp' = [op |-> "read bbox", image |-> image,
                             raised |-> r.raised, bounds |-> r.bounds]
    /\ UNCHANGED <<extraVars, tfwFile, cachedBounds, firstCall, rasterVars, inputVars,
                   scanVars, fillVars, cacheVars, polyVars>>

NextBounds ==
    \/ ParseTfwFile
    \/ GetHoChiMinhBounds
    \/ ClearBoundsCache
    \/ WriteTfwFile
    \/ ReadFloodDepthDataBounds
    \/ ReadFloodDepthDataBbox

SpecBounds == InitBounds /\ [][NextBounds]_vars


\* ------------------------------------------------------------------------
\* Claims about the world file and the bounds
\* ------------------------------------------------------------------------
\* the file is missing, has fewer than six lines, or one of its first six
\* lines is not a number
InvalidTfw(file) ==
    \/ ~file.exists
    \/ Len(file.lines) < 6
    \/ \E k \in 1..6 : file.lines[k].kind # "number"

\* C11: parseTfwFile fails, returning no record, whenever the file has fewer
\* than six lines or one of the first six lines is not a number; a record it
\* returns never holds a NaN parameter.
C11_ParseRejectsInvalidTfw ==
    boundsResp.op = "parse"
        => /\ InvalidTfw(boundsResp.file) => ~boundsResp.result.ok
           /\ boundsResp.result.ok
                  => \A f \in DOMAIN boundsResp.result.value :
                         boundsResp.result.value[f] # NaN


\* C12: no bounds operation raises, and whenever the world file or the
\* embedded transform cannot be read or is invalid the operation returns its
\* configured default region.
C12_BoundsFallBackInsteadOfRaising ==
    /\ firstCall # <<>>
           => (InvalidTfw(firstCall[1].file)
                   => firstCall[1].bounds = HcmFallbackBounds)
    /\ boundsResp.op \in {"hcm", "read bounds", "read bbox"} => ~boundsResp.raised
    /\ (boundsResp.op = "read bbox" /\ ~boundsResp.image.hasTransform)
           => boundsResp.bounds = DefaultBounds

\* latitudes within 90 degrees, longitudes within 180 degrees
Plausible(b) ==
    /\ \A v \in {b.north, b.south, b.east, b.west} : v # NaN
    /\ Abs(b.north) <= 90 * Degree
    /\ Abs(b.south) <= 90 * Degree
    /\ Abs(b.east) <= 180 * Degree
    /\ Abs(b.west) <= 180 * Degree

\* C13: the bounds returned with a loaded raster are plausible geographic
\* degrees, whether they come from the embedded bounding box or from the
\* metadata.
C13_RasterBoundsPlausible ==
    (boundsResp.op \in {"read bounds", "read bbox"} /\ ~boundsResp.raised)
        => Plausible(boundsResp.bounds)

\* what a call of getHoChiMinhBounds computes from a file when nothing is cached
ComputedFrom(file) ==
    {getHoChiMinhBounds(<<>>, file, t).value : t \in BOOLEAN}

MaxClients == 3

Clients == 1..MaxClients
CacheOps == {"getFloodDepthMap", "getRegionFloodDepth", "getFloodDepthStats"}

InitCache ==
    /\ cachedData = FALSE
    /\ reqs = [c \in Clients |-> [op |-> "none", pc |-> "idle"]]
    /\ decodes = 0
    /\ tfwFile = [exists |-> FALSE, lines |-> <<>>]
    /\ cachedBounds = <<>>
    /\ boundsResp = [op |-> "none"]
    /\ firstCall = <<>>
    /\ data = <<>>
    /\ noDataValue = {}
    /\ resp = [op |-> "none"]
    /\ served = 0
    /\ matrix = <<>>
    /\ wards = <<>>
    /\ sIdx = 1
    /\ scanStatus = <<>>
    /\ scanInside = <<>>
    /\ fIdx = 1
    /\ fPhase = "start"
    /\ idMatrix = <<>>
    /\ queue = <<>>
    /\ depthCount = 0
    /\ fillStatus = <<>>
    /\ pops = 0
    /\ popped = <<>>
    /\ claims = <<>>
    /\ accessed = {}
    /\ warned = <<>>
    /\ testRing = <<>>
    /\ testPoint = [lat |-> 0, lon |-> 0]
    /\ pip = [op |-> "none"]
    /\ trip = [op |-> "none"]
    /\ tifs = <<>>
    /\ metadataFile = [kind |-> "missing"]
    /\ png = [exists |-> FALSE]
    /\ mapCalls = <<>>
    /\ mapLog = <<>>
    /\ overlapped = FALSE

\* a request runs up to its first suspension: getFloodDepthMap answers from a
\* pre-generated PNG when there is one; otherwise `this.cachedData ??=` reads
\* the cache and, finding null, calls readFloodDepthData, which throws at
\* once when the file is missing and else suspends at its first await
StartRequest ==
    /\ \E c \in Clients, op \in CacheOps, pngExists \in BOOLEAN, tifExists \in BOOLEAN :
           /\ reqs[c].pc = "idle"
           /\ IF op = "getFloodDepthMap" /\ pngExists
              THEN /\ reqs' = [reqs EXCEPT ![c] = [op |-> op, pc |-> "done"]]
                   /\ UNCHANGED decodes
              ELSE IF cachedData
              THEN /\ reqs' = [reqs EXCEPT ![c] = [op |-> op, pc |-> "done"]]
                   /\ UNCHANGED decodes
              ELSE IF ~tifExists
              THEN /\ reqs' = [reqs EXCEPT ![c] = [op |-> op, pc |-> "failed"]]
                   /\ UNCHANGED decodes
              ELSE /\ reqs' = [reqs EXCEPT ![c] = [op |-> op, pc |-> "decoding"]]
                   /\ decodes' = decodes + 1
    /\ UNCHANGED <<extraVars, cachedData, rasterVars, inputVars, scanVars, fillVars,
                   boundsVars, polyVars>>

\* readFloodDepthData resolves: the assignment of `??=` stores the raster and
\* the request runs to its end
FinishDecode ==
    /\ \E c \in Clients :
           /\ reqs[c].pc = "decoding"
           /\ reqs' = [reqs EXCEPT ![c].pc = "done"]
    /\ cachedData' = TRUE
    /\ UNCHANGED <<extraVars, decodes, rasterVars, inputVars, scanVars, fillVars,
                   boundsVars, polyVars>>

\* readFloodDepthData rejects (the file cannot be decoded): nothing is stored
FailDecode ==
    /\ \E c \in Clients :
           /\ reqs[c].pc = "decoding"
           /\ reqs' = [reqs EXCEPT ![c].pc = "failed"]
    /\ UNCHANGED <<extraVars, cachedData, decodes, rasterVars, inputVars, scanVars, fillVars,
                   boundsVars, polyVars>>

NextCache == StartRequest \/ FinishDecode \/ FailDecode

SpecCache == InitCache /\ [][NextCache]_vars

\* C15: requests that reach the empty raster cache concurrently decode the
\* raster at most once: no two requests are inside readFloodDepthData at the
\* same time.
C15_SingleFlightDecode ==
    Cardinality({c \in Clients : reqs[c].pc = "decoding"}) <= 1


\* ------------------------------------------------------------------------
\* Claims about the ward list
\* ------------------------------------------------------------------------
\* the ward has data and an outer ring of at least three vertices
GoodWard(w) ==
    /\ w.found
    /\ \E k \in DOMAIN w.members :
           /\ w.members[k].role = "outer"
           /\ w.members[k].type = "way"
           /\ w.members[k].hasGeometry
           /\ Len(w.members[k].geometry) >= 3

RECURSIVE GoodIds(_)
GoodIds(ws) ==
    IF ws = <<>> THEN <<>>
    ELSE IF GoodWard(Head(ws)) THEN <<Head(ws).id>> \o GoodIds(Tail(ws))
    ELSE GoodIds(Tail(ws))

IdsOf(status) == [k \in DOMAIN status |-> status[k].id]

\* the full-grid scan skips the bad wards and reports every other ward
ScanIsolatesWards ==
    sIdx > Len(wards) => IdsOf(scanStatus) = GoodIds(wards)

\* the flood fill never gives up the batch, skips the bad wards and reports
\* every other ward
FillIsolatesWards ==
    /\ fPhase # "aborted"
    /\ (fPhase = "start" /\ fIdx > Len(wards)) => IdsOf(fillStatus) = GoodIds(wards)

\* C16: in both attribution algorithms a ward with missing data, with no
\* outer ring or with a degenerate outer ring (missing geometry, at most two
\* vertices) is skipped and every other ward of the list gets its entry; a
\* bad ward never makes the batch return no result.
C16_PerWardFailuresIsolated == ScanIsolatesWards /\ FillIsolatesWards


\* ------------------------------------------------------------------------
\* The flood fill as a function of its inputs
\* ------------------------------------------------------------------------
\* while (queue.length > 0), given up after MaxPops iterations
RECURSIVE fillWhile(_, _, _, _, _, _)
fillWhile(m, id, pos, st, count, fuel) ==
    IF st.queue = <<>> THEN [st |-> st, depthCount |-> count, exhausted |-> FALSE]
    ELSE IF fuel = 0 THEN [st |-> st, depthCount |-> count, exhausted |-> TRUE]
    ELSE LET x == Head(st.queue)[1]
             y == Head(st.queue)[2]
             next == growLoop(m, x, y, 1, id, pos,
                              [st EXCEPT !.queue = Tail(st.queue)])
         IN fillWhile(m, id, pos, next, JsAdd(count, cellAt(m, x, y)), fuel - 1)

\* wardIds.forEach from position k on
RECURSIVE fillForEach(_, _, _, _)
fillForEach(m, ws, k, acc) ==
    IF k > Len(ws) THEN acc
    ELSE LET wardData == ws[k]
             b == findBoundary(wardData.members, 1)
         IN IF ~wardData.found \/ b = 0 THEN fillForEach(m, ws, k + 1, acc)
            ELSE IF ~wardData.members[b].hasGeometry
            THEN [acc EXCEPT !.aborted = TRUE]
            ELSE LET seeded == seedLoop(m, wardData.members[b].geometry, 1,
                                        wardData.id, k,
                                        [idMatrix |-> acc.idMatrix, queue |-> <<>>,
                                         claims |-> acc.claims, accessed |-> {},
                                         warned |-> <<>>])
                     grown == fillWhile(m, wardData.id, k, seeded, 0, MaxPops)
                 IN IF grown.exhausted THEN [acc EXCEPT !.exhausted = TRUE]
                    ELSE fillForEach(m, ws, k + 1,
                             [acc EXCEPT
                                 !.idMatrix = grown.st.idMatrix,
                                 !.claims = grown.st.claims,
                                 !.depthStatus = Append(@,
                                     [id |-> wardData.id, depth |-> grown.depthCount])])

\* process(matrix, width, height) of the flood fill on the ward list ws
fillProcess(m, ws) ==
    fillForEach(m, ws, 1,
        [idMatrix |-> [y \in 0..(Height - 1) |-> [x \in 0..(Width - 1) |-> 0]],
         claims |-> [p \in Pixels |-> <<>>],
         depthStatus |-> <<>>, aborted |-> FALSE, exhausted |-> FALSE])

FillFinished == fPhase = "start" /\ fIdx > Len(wards)

\* the function and the step-by-step run give the same result
FillProcessAgrees ==
    FillFinished
        => LET r == fillProcess(matrix, wards)
           IN /\ ~r.aborted /\ ~r.exhausted
              /\ r.idMatrix = idMatrix
              /\ r.depthStatus = fillStatus

Reverse(s) == [k \in DOMAIN s |-> s[Len(s) + 1 - k]]

Entries(status) == {status[k] : k \in DOMAIN status}

\* C17: the result of the flood fill does not depend on the order of the ward
\* list: the run on the same wards in the opposite order claims the same
\* pixels for each ward and reports the same per-ward values.
C17_FillOrderIndependent ==
    FillFinished
        => LET other == fillProcess(matrix, Reverse(wards))
           IN ~other.exhausted
                  => /\ ~other.aborted
                     /\ other.idMatrix = idMatrix
                     /\ Entries(other.depthStatus) = Entries(fillStatus)


\* ------------------------------------------------------------------------
\* Point-in-polygon test on rings given from different start vertices
\* ------------------------------------------------------------------------
MaxRingLen == 4
MaxCoord == 2

Lattice == {[lat |-> n, lon |-> e] : n \in 0..MaxCoord, e \in 0..MaxCoord}

RingsOfLen(n) == [1..n -> Lattice]
TestRings == UNION {RingsOfLen(n) : n \in 1..MaxRingLen}

\* the ring started k vertices later
Rotate(polygon, k) ==
    [i \in DOMAIN polygon |-> polygon[((i - 1 + k) % Len(polygon)) + 1]]

InitPolygon ==
    /\ testRing \in TestRings
    /\ testPoint \in Lattice
    /\ pip = [op |-> "none"]
    /\ trip = [op |-> "none"]
    /\ tifs = <<>>
    /\ metadataFile = [kind |-> "missing"]
    /\ png = [exists |-> FALSE]
    /\ mapCalls = <<>>
    /\ mapLog = <<>>
    /\ overlapped = FALSE
    /\ cachedData = FALSE
    /\ reqs = <<>>
    /\ decodes = 0
    /\ tfwFile = [exists |-> FALSE, lines |-> <<>>]
    /\ cachedBounds = <<>>
    /\ boundsResp = [op |-> "none"]
    /\ firstCall = <<>>
    /\ data = <<>>
    /\ noDataValue = {}
    /\ resp = [op |-> "none"]
    /\ served = 0
    /\ matrix = <<>>
    /\ wards = <<>>
    /\ sIdx = 1
    /\ scanStatus = <<>>
    /\ scanInside = <<>>
    /\ fIdx = 1
    /\ fPhase = "start"
    /\ idMatrix = <<>>
    /\ queue = <<>>
    /\ depthCount = 0
    /\ fillStatus = <<>>
    /\ pops = 0
    /\ popped = <<>>
    /\ claims = <<>>
    /\ accessed = {}
    /\ warned = <<>>

\* the test applied to the ring as given and to the ring started shift
\* vertices later
IsPointInPolygon ==
    /\ \E shift \in 0..(Len(testRing) - 1) :
           pip' = [op |-> "isPointInPolygon", shift |-> shift,
                   inside |-> isPointInPolygon(testPoint, testRing),
                   rotated |-> isPointInPolygon(testPoint, Rotate(testRing, shift))]
    /\ UNCHANGED <<extraVars, testRing, testPoint, rasterVars, inputVars, scanVars, fillVars,
                   boundsVars, cacheVars>>

NextPolygon ==
    \/ IsPointInPolygon

SpecPolygon == InitPolygon /\ [][NextPolygon]_vars

\* C18: for every ring, every cyclic shift of its vertex list and every test
\* point, isPointInPolygon gives the same inside/outside result.
C18_RotationInvariant ==
    pip.op = "isPointInPolygon" => pip.rotated = pip.inside

\* a point found inside a ring of at least three vertices started elsewhere
C18_Witness ==
    /\ pip.op = "isPointInPolygon"
    /\ Len(testRing) >= 3
    /\ pip.shift > 0
    /\ pip.inside
    /\ pip.rotated


\* the sum of the depths of the pixels of S that are positive and not no-data
RECURSIVE SumPositiveDepths(_, _)
SumPositiveDepths(m, S) ==
    IF S = {} THEN 0
    ELSE LET p == CHOOSE q \in S : TRUE
             depth == m[p[2]][p[1]]
             rest == SumPositiveDepths(m, S \ {p})
         IN IF JsGt(depth, 0) /\ depth # NoDataValue THEN JsAdd(rest, depth) ELSE rest

\* C19: in the full-grid scan the value reported for a ward is the sum of
\* the depths of its inside pixels that are positive and not no-data, divided
\* by the count of all its inside pixels, and 0 when no pixel is inside.
C19_ScanValueIsSumOverCount ==
    \A k \in DOMAIN scanInside :
        LET inside == scanInside[k].inside
        IN scanStatus[k].depth =
               IF inside = {} THEN 0
               ELSE JsDiv(SumPositiveDepths(matrix, inside), Cardinality(inside))


\* the query box reaches beyond the raster on some side
QueryOverhangs(b) ==
    \/ b.north > MetaBounds.north
    \/ b.south < MetaBounds.south
    \/ b.east > MetaBounds.east
    \/ b.west < MetaBounds.west

\* C20: getRegionFloodDepth scans a rectangle clamped to the grid: every
\* scanned (x, y) lies in the grid, each cell of the rectangle is visited
\* exactly once and no other cell is, total_pixels is the number of cells of
\* the rectangle, and valid_pixels <= total_pixels.
C20_ScanClampedOnce ==
    resp.op = "region"
        => LET r == resp.rect
               cells == resp.cells
               rows == r.startY..(r.endY - 1)
               cols == r.startX..(r.endX - 1)
           IN /\ \A k \in DOMAIN cells :
                     /\ 0 <= cells[k].x /\ cells[k].x < Width
                     /\ 0 <= cells[k].y /\ cells[k].y < Height
                     /\ cells[k].x \in cols /\ cells[k].y \in rows
              /\ \A x \in cols, y \in rows :
                     Cardinality({k \in DOMAIN cells :
                                     cells[k].x = x /\ cells[k].y = y}) = 1
              /\ resp.total_pixels = Cardinality(rows \X cols)
              /\ resp.valid_pixels <= resp.total_pixels

\* a query box that overhangs the raster and still covers some cells
C20_Witness ==
    /\ resp.op = "region"
    /\ QueryOverhangs(resp.region_bounds)
    /\ resp.total_pixels > 1
    /\ resp.valid_pixels > 0
    /\ resp.valid_pixels < resp.total_pixels


\* ------------------------------------------------------------------------
\* Claims about the region growth of the flood fill
\* ------------------------------------------------------------------------
\* the pixels claimed by the ward at position k, and by the wards before it
ClaimedBy(k) == {p \in Pixels : \E i \in DOMAIN claims[p] : claims[p][i] = k}
ClaimedBefore(k) == {p \in Pixels : \E i \in DOMAIN claims[p] : claims[p][i] < k}

\* the positions of the wards whose region growth has finished
GrownWards ==
    {k \in DOMAIN wards :
        /\ k < fIdx
        /\ wards[k].found
        /\ findBoundary(wards[k].members, 1) # 0}

BoundaryOf(wardData) == wardData.members[findBoundary(wardData.members, 1)]

\* C21: once the flood fill has finished a ward, the pixels claimed by it are
\* exactly the valid pixels joined, by a 4-connected path of valid pixels not
\* claimed before the ward started, to one of its valid unclaimed vertex
\* pixels; no invalid pixel is ever claimed.
C21_ClaimedIsReachableRegion ==
    /\ \A k \in GrownWards :
           LET free == PositivePixels \ ClaimedBefore(k)
               seeds == VertexPixels(BoundaryOf(wards[k]).geometry) \cap free
           IN ClaimedBy(k) = Reach(free, seeds)
    /\ \A p \in Pixels : claims[p] # <<>> => p \in PositivePixels

NoZeroId == \A k \in DOMAIN wards : wards[k].id # 0

C21_NonZeroIds == NoZeroId => C21_ClaimedIsReachableRegion


\* the sum of the depths of the pixels of S
RECURSIVE SumDepths(_, _)
SumDepths(m, S) ==
    IF S = {} THEN 0
    ELSE LET p == CHOOSE q \in S : TRUE
         IN JsAdd(SumDepths(m, S \ {p}), m[p[2]][p[1]])

\* the dequeue steps of the ward at position k that took pixel p
PopsOf(k, p) ==
    {i \in DOMAIN popped : popped[i].pos = k /\ popped[i].x = p[1] /\ popped[i].y = p[2]}

\* the entry of depthStatus pushed for the ward at position k
StatusOf(k) == fillStatus[Cardinality({i \in GrownWards : i <= k})]

\* C22: in the flood fill the value reported for a ward is the sum of the
\* depths of the pixels claimed by it, each claimed pixel being dequeued and
\* added exactly once, also when several boundary vertices fall in one pixel.
C22_ValueIsSumOfClaimed ==
    \A k \in GrownWards :
        /\ StatusOf(k).id = wards[k].id
        /\ StatusOf(k).depth = SumDepths(matrix, ClaimedBy(k))
        /\ \A p \in Pixels :
               Cardinality(PopsOf(k, p)) = (IF p \in ClaimedBy(k) THEN 1 ELSE 0)

C22_NonZeroIds == NoZeroId => C22_ValueIsSumOfClaimed


\* ------------------------------------------------------------------------
\* Claims about the depth buckets
\* ------------------------------------------------------------------------
\* the valid values a region or statistics answer was computed from
AnsweredValues ==
    IF resp.op = "region"
    THEN {<<k, data[resp.read[k] + 1]>> : k \in {i \in DOMAIN resp.read :
              IsValidCell(data[resp.read[i] + 1], noDataValue)}}
    ELSE {<<k, data[k]>> : k \in {i \in DOMAIN data : IsValidCell(data[i], noDataValue)}}

AnsweredBuckets ==
    IF resp.op = "region" THEN resp.flood_distribution ELSE resp.depth_distribution

BucketsOf(v) ==
    {name \in {"no_flood", "shallow", "moderate", "deep", "very_deep"} :
        \/ name = "no_flood" /\ isNoFlood(v)
        \/ name = "shallow" /\ isShallow(v)
        \/ name = "moderate" /\ isModerate(v)
        \/ name = "deep" /\ isDeep(v)
        \/ name = "very_deep" /\ isVeryDeep(v)}

HowMany(v) == Cardinality({e \in AnsweredValues : e[2] = v})

\* C23: the depth buckets are pairwise disjoint with closed upper bounds:
\* every valid value is in at most one bucket, 0 counts as no_flood, 0.5 as
\* shallow, 1.0 as moderate, 2.0 as deep and any value above 2.0 as very_deep.
C23_BucketsDisjointClosedAbove ==
    (resp.op \in {"region", "stats"} /\ resp.valid_pixels > 0)
        => /\ \A e \in AnsweredValues : Cardinality(BucketsOf(e[2])) <= 1
           /\ AnsweredBuckets.no_flood = HowMany(0)
           /\ AnsweredBuckets.shallow = HowMany(HalfMetre)
           /\ AnsweredBuckets.moderate = HowMany(OneMetre)
           /\ AnsweredBuckets.deep = HowMany(TwoMetres)
           /\ AnsweredBuckets.very_deep =
                  Cardinality({e \in AnsweredValues : e[2] > TwoMetres})

\* an answer over cells that lie on each of the four bucket bounds
C23_Witness ==
    /\ resp.op \in {"region", "stats"}
    /\ resp.valid_pixels = 4
    /\ HowMany(0) = 1 /\ HowMany(HalfMetre) = 1
    /\ HowMany(OneMetre) = 1 /\ HowMany(TwoMetres) = 1


\* ------------------------------------------------------------------------
\* Claims about the pixel rectangle and the pixel/geo mapping
\* ------------------------------------------------------------------------
\* the geographic extent of the cell in column p[1], row p[2]
CellExtent(p) ==
    [west |-> MetaBounds.west + p[1] * 2 * HalfCell,
     east |-> MetaBounds.west + (p[1] + 1) * 2 * HalfCell,
     north |-> MetaBounds.north - p[2] * 2 * HalfCell,
     south |-> MetaBounds.north - (p[2] + 1) * 2 * HalfCell]

\* the two boxes share more than an edge
Overlaps(a, b) ==
    /\ a.west < b.east /\ b.west < a.east
    /\ a.south < b.north /\ b.south < a.north

Within(a, b) ==
    /\ b.west <= a.west /\ a.east <= b.east
    /\ b.south <= a.south /\ a.north <= b.north

Scanned(p) == \E k \in DOMAIN resp.cells : resp.cells[k].x = p[1] /\ resp.cells[k].y = p[2]

\* C24: the floor/ceil pixel rectangle covers the query: every grid cell
\* whose geographic extent overlaps the query box, in particular every cell
\* whose centre is inside it, lies in the scanned rectangle.
C24_RectangleCoversQuery ==
    resp.op = "region"
        => \A p \in Pixels :
               Overlaps(CellExtent(p), resp.region_bounds)
                   => /\ Scanned(p)
                      /\ resp.rect.startX <= p[1] /\ p[1] < resp.rect.endX
                      /\ resp.rect.startY <= p[2] /\ p[2] < resp.rect.endY

\* a query whose edges cut through cells: some cell is overlapped only in part
C24_Witness ==
    /\ resp.op = "region"
    /\ \E p \in Pixels :
           /\ Overlaps(CellExtent(p), resp.region_bounds)
           /\ ~Within(CellExtent(p), resp.region_bounds)
           /\ resp.region_bounds.east < CellExtent(p).east
           /\ Scanned(p)
    /\ \E p \in Pixels :
           /\ Overlaps(CellExtent(p), resp.region_bounds)
           /\ resp.region_bounds.south > CellExtent(p).south


\* ------------------------------------------------------------------------
\* Pixel centre to pixel: the two mappings of the ward attribution composed
\* ------------------------------------------------------------------------
MaxGrid == 3
MaxHalfCellSize == 2

\* full-grid scan: centre of pixel (x, y) of a width x height grid on bounds
pixelCentre(x, y, bounds, width, height) ==
    [lon |-> bounds.west + ((2 * x + 1) * (bounds.east - bounds.west)) \div (2 * width),
     lat |-> bounds.north
                 - ((2 * y + 1) * (bounds.north - bounds.south)) \div (2 * height)]

GridSizes == 1..MaxGrid
Origins == {-3, 0, 106}

\* bounds with north > south and east > west whose half cell is a whole
\* number of units
GridBounds(width, height) ==
    {[west |-> w, east |-> w + 2 * width * hw,
      south |-> s, north |-> s + 2 * height * hh] :
        w \in Origins, s \in Origins, hw \in 1..MaxHalfCellSize, hh \in 1..MaxHalfCellSize}

TripInputs ==
    UNION {{[op |-> "none", width |-> width, height |-> height, bounds |-> b,
             x |-> x, y |-> y] :
                b \in GridBounds(width, height),
                x \in 0..(width - 1), y \in 0..(height - 1)} :
           width \in GridSizes, height \in GridSizes}

InitTrip ==
    /\ trip \in TripInputs
    /\ tifs = <<>>
    /\ metadataFile = [kind |-> "missing"]
    /\ png = [exists |-> FALSE]
    /\ mapCalls = <<>>
    /\ mapLog = <<>>
    /\ overlapped = FALSE
    /\ testRing = <<>>
    /\ testPoint = [lat |-> 0, lon |-> 0]
    /\ pip = [op |-> "none"]
    /\ cachedData = FALSE
    /\ reqs = <<>>
    /\ decodes = 0
    /\ tfwFile = [exists |-> FALSE, lines |-> <<>>]
    /\ cachedBounds = <<>>
    /\ boundsResp = [op |-> "none"]
    /\ firstCall = <<>>
    /\ data = <<>>
    /\ noDataValue = {}
    /\ resp = [op |-> "none"]
    /\ served = 0
    /\ matrix = <<>>
    /\ wards = <<>>
    /\ sIdx = 1
    /\ scanStatus = <<>>
    /\ scanInside = <<>>
    /\ fIdx = 1
    /\ fPhase = "start"
    /\ idMatrix = <<>>
    /\ queue = <<>>
    /\ depthCount = 0
    /\ fillStatus = <<>>
    /\ pops = 0
    /\ popped = <<>>
    /\ claims = <<>>
    /\ accessed = {}
    /\ warned = <<>>

\* the pixel is mapped to its centre and the centre is mapped back
PixelToGeoToPixel ==
    /\ trip.op = "none"
    /\ LET geo == pixelCentre(trip.x, trip.y, trip.bounds, trip.width, trip.height)
           back == latLonToPixel(geo.lat, geo.lon, trip.bounds, trip.width, trip.height)
       IN trip' = [trip EXCEPT !.op = "roundTrip"] @@ [geo |-> geo, back |-> back]
    /\ UNCHANGED <<rasterVars, inputVars, scanVars, fillVars,
                   boundsVars, cacheVars, polyVars, mapVars>>

NextTrip ==
    \/ PixelToGeoToPixel

SpecTrip == InitTrip /\ [][NextTrip]_vars

\* C25: for every grid size, bounds with north > south and east > west and
\* pixel of the grid, mapping the pixel to its centre with the full-grid
\* formula and the centre back with latLonToPixel returns the pixel.
C25_PixelGeoPixelIdentity ==
    trip.op = "roundTrip" => (trip.back.x = trip.x /\ trip.back.y = trip.y)

\* the last column and a lower row of a grid of more than one cell
C25_Witness ==
    /\ trip.op = "roundTrip"
    /\ trip.width > 1 /\ trip.x = trip.width - 1
    /\ trip.y > 0
    /\ trip.bounds.west # 0


\* ------------------------------------------------------------------------
\* Claims about the indexes of the flood fill
\* ------------------------------------------------------------------------
\* the positions of the wards whose boundary vertices have been seeded
SeededWards ==
    {k \in DOMAIN wards :
        /\ k < fIdx \/ (k = fIdx /\ fPhase = "grow")
        /\ wards[k].found
        /\ findBoundary(wards[k].members, 1) # 0}

\* the vertices of the boundary of the ward at position k that fall outside
\* the image, the east and south edges included
OutsideVertices(k) ==
    LET coords == BoundaryOf(wards[k]).geometry
    IN {v \in DOMAIN coords :
           \/ coords[v].lon < MetaBounds.west \/ coords[v].lon >= MetaBounds.east
           \/ coords[v].lat > MetaBounds.north \/ coords[v].lat <= MetaBounds.south}

WarnedVertices(k) == {warned[i].vertex : i \in {j \in DOMAIN warned : warned[j].pos = k}}

\* C26: the flood fill never indexes the depth grid or the claim grid outside
\* the image: a boundary vertex that maps outside, also one exactly on the
\* east or south edge, is reported and not seeded, wrapped or clamped, and
\* every neighbour is bounds-checked before it is read.
C26_FillStaysInGrid ==
    /\ accessed \subseteq Pixels
    /\ \A i \in DOMAIN queue : queue[i] \in Pixels
    /\ \A k \in SeededWards : WarnedVertices(k) = OutsideVertices(k)
    /\ \A i \in DOMAIN warned :
           /\ ~(<<warned[i].x, warned[i].y>> \in Pixels)
           /\ LET c == BoundaryOf(wards[warned[i].pos]).geometry[warned[i].vertex]
              IN warned[i].x = latLonToPixel(c.lat, c.lon, MetaBounds, Width, Height).x
    /\ (fPhase = "grow" /\ pops = 0)
           => LET coords == BoundaryOf(wards[fIdx]).geometry
              IN \A i \in DOMAIN queue :
                     \E v \in DOMAIN coords \ OutsideVertices(fIdx) :
                         LET q == latLonToPixel(coords[v].lat, coords[v].lon,
                                                MetaBounds, Width, Height)
                         IN queue[i] = <<q.x, q.y>>

\* a ward with a vertex exactly on the east edge has been grown: its region
\* growth examined neighbours beyond the image
C26_Witness ==
    /\ \E i \in DOMAIN warned : warned[i].x = Width /\ warned[i].y \in 0..(Height - 1)
    /\ \E i \in DOMAIN warned : warned[i].y = Height
    /\ popped # <<>>
    /\ accessed # {}


\* ------------------------------------------------------------------------
\* Claims about the independence of the wards in the full-grid scan
\* ------------------------------------------------------------------------
\* the value of the scan run on the list that holds wardData alone
AloneValue(wardData) ==
    scanDepth(scanLoop(matrix, outerWaysOf(wardData), 0, 0,
        [current_depth |-> 0, added |-> {}, counted_pixels |-> 0, inside |-> {}]))

\* every value reported so far is the value of its ward taken alone
ScanValuesAlone ==
    \A k \in DOMAIN scanStatus :
        /\ scanStatus[k].id = wards[scanInside[k].pos].id
        /\ scanStatus[k].depth = AloneValue(wards[scanInside[k].pos])

\* C27: in the full-grid scan the grid is never written and each ward has its
\* own accumulators: the value reported for a ward is the same whatever other
\* wards are in the list and whatever their order, and the depth matrix after
\* the run is the matrix before it.
C27_ScanWardsIndependent ==
    /\ []ScanValuesAlone
    /\ [][matrix' = matrix]_vars

\* a second ward reported after a first one that had pixels inside
C27_Witness ==
    /\ Len(scanStatus) = 2
    /\ scanInside[1].counted_pixels > 0
    /\ scanInside[1].current_depth # 0
    /\ scanInside[2].counted_pixels > 0
    /\ scanStatus[1].depth # scanStatus[2].depth


\* ------------------------------------------------------------------------
\* Claims about the termination of the region growth
\* ------------------------------------------------------------------------
\* C28: the region growth terminates for every ward whatever its id, id 0
\* included: no pixel is pushed on a queue more than once during the whole
\* run, so that the pixels dequeued for a ward and those still queued never
\* outnumber the pixels of the grid and the queue runs empty.
C28_GrowthTerminates ==
    /\ \A p \in Pixels : Len(claims[p]) <= 1
    /\ fPhase = "grow" => pops + Len(queue) <= Cardinality(Pixels)

C28_NonZeroIds == NoZeroId => C28_GrowthTerminates


\* ------------------------------------------------------------------------
\* getFloodDepthMap by time frame: the heatmap PNG of one basename
\* ------------------------------------------------------------------------
MaxMapClients == 2
MaxMapCalls == 3
MaxTifWrites == 1

MapClients == 1..MaxMapClients

\* the bounds answered next to an existing PNG when metadata.json gives none,
\* in millionths of a degree
ExistingNorth == 16500000
ExistingSouth == 16400000
ExistingEast == 107650000
ExistingWest == 107550000

\* the five legend values, in quarters of the depth unit
legendValues(min, max) ==
    <<4 * min, 4 * min + (max - min), 4 * min + 2 * (max - min),
      4 * min + 3 * (max - min), 4 * max>>

\* rasters a source TIF can hold: no valid cell, shallow water, deep water
TifContents ==
    {[data |-> <<NoDataValue, NoDataValue, NoDataValue, NoDataValue>>,
      noDataValue |-> {NoDataValue}],
     [data |-> <<HalfMetre, OneMetre, NoDataValue, 0>>, noDataValue |-> {NoDataValue}],
     [data |-> <<TwoMetres, OneMetre, 0, NoDataValue>>, noDataValue |-> {NoDataValue}]}

\* the source TIF and metadata.json are on disk, the PNG is not, no request
\* is running
InitMap ==
    /\ tifs \in {<<t>> : t \in TifContents}
    /\ metadataFile \in MetadataFiles
    /\ png = [exists |-> FALSE, writes |-> 0, pixels |-> <<>>, version |-> 0]
    /\ mapCalls = [c \in MapClients |-> [pc |-> "idle"]]
    /\ mapLog = <<>>
    /\ overlapped = FALSE
    /\ trip = [op |-> "none"]
    /\ testRing = <<>>
    /\ testPoint = [lat |-> 0, lon |-> 0]
    /\ pip = [op |-> "none"]
    /\ cachedData = FALSE
    /\ reqs = <<>>
    /\ decodes = 0
    /\ tfwFile = [exists |-> FALSE, lines |-> <<>>]
    /\ cachedBounds = <<>>
    /\ boundsResp = [op |-> "none"]
    /\ firstCall = <<>>
    /\ data = <<>>
    /\ noDataValue = {}
    /\ resp = [op |-> "none"]
    /\ served = 0
    /\ matrix = <<>>
    /\ wards = <<>>
    /\ sIdx = 1
    /\ scanStatus = <<>>
    /\ scanInside = <<>>
    /\ fIdx = 1
    /\ fPhase = "start"
    /\ idMatrix = <<>>
    /\ queue = <<>>
    /\ depthCount = 0
    /\ fillStatus = <<>>
    /\ pops = 0
    /\ popped = <<>>
    /\ claims = <<>>
    /\ accessed = {}
    /\ warned = <<>>

InFlight == {c \in MapClients : mapCalls[c].pc # "idle"}

\* getFloodDepthMap up to its first suspension: the PNG is looked for, the
\* bounds of the existing-PNG answer are taken from metadata.json, and
\* readFloodDepthData reads the bytes of the TIF before it awaits the decoder
StartGetFloodDepthMap ==
    \E c \in MapClients :
    /\ mapCalls[c].pc = "idle"
    /\ Len(mapLog) + Cardinality(InFlight) < MaxMapCalls
    /\ mapCalls' = [mapCalls EXCEPT ![c] =
           IF png.exists
           THEN [pc |-> "existing", version |-> Len(tifs),
                 bounds |-> IF getMetadataBounds(metadataFile) = <<>>
                            THEN [north |-> ExistingNorth, south |-> ExistingSouth,
                                  east |-> ExistingEast, west |-> ExistingWest]
                            ELSE getMetadataBounds(metadataFile)[1]]
           ELSE [pc |-> "generating", version |-> Len(tifs)]]
    /\ overlapped' = (overlapped \/ InFlight # {})
    /\ UNCHANGED <<tifs, metadataFile, png, mapLog,
                   rasterVars, inputVars, scanVars, fillVars,
                   boundsVars, cacheVars, polyVars, tripVars>>

\* the rest of the branch that found the PNG: min, max and legend from the
\* TIF that was read
AnswerWithExistingPng ==
    \E c \in MapClients :
    /\ mapCalls[c].pc = "existing"
    /\ LET tif == tifs[mapCalls[c].version]
           tifData == readFloodDepthData(tif.data, tif.noDataValue)
       IN mapLog' = Append(mapLog,
              [path |-> "existing", version |-> mapCalls[c].version,
               bounds |-> mapCalls[c].bounds,
               min_depth |-> tifData.min, max_depth |-> tifData.max,
               legend |-> legendValues(tifData.min, tifData.max)])
    /\ mapCalls' = [mapCalls EXCEPT ![c] = [pc |-> "idle"]]
    /\ UNCHANGED <<tifs, metadataFile, png, overlapped,
                   rasterVars, inputVars, scanVars, fillVars,
                   boundsVars, cacheVars, polyVars, tripVars>>

\* the rest of the branch that found no PNG: createFloodDepthImage writes the
\* file, the answer takes bounds, min and max from the decoded raster
GenerateAndAnswer ==
    \E c \in MapClients :
    /\ mapCalls[c].pc = "generating"
    /\ LET tif == tifs[mapCalls[c].version]
           floodData == readFloodDepthData(tif.data, tif.noDataValue)
           bounds == readFloodDepthDataBounds(
                         [hasTransform |-> FALSE, bbox |-> <<0, 0, 0, 0>>],
                         metadataFile).bounds
       IN /\ png' = [exists |-> TRUE, writes |-> png.writes + 1,
                     pixels |-> createFloodDepthImage(floodData).pixels,
                     version |-> mapCalls[c].version]
          /\ mapLog' = Append(mapLog,
                 [path |-> "generated", version |-> mapCalls[c].version,
                  bounds |-> bounds,
                  min_depth |-> floodData.min, max_depth |-> floodData.max,
                  legend |-> legendValues(floodData.min, floodData.max)])
    /\ mapCalls' = [mapCalls EXCEPT ![c] = [pc |-> "idle"]]
    /\ UNCHANGED <<tifs, metadataFile, overlapped,
                   rasterVars, inputVars, scanVars, fillVars,
                   boundsVars, cacheVars, polyVars, tripVars>>

\* the source TIF is replaced by another raster
WriteTif ==
    /\ Len(tifs) <= MaxTifWrites
    /\ \E t \in TifContents \ {tifs[Len(tifs)]} : tifs' = Append(tifs, t)
    /\ UNCHANGED <<metadataFile, png, mapCalls, mapLog, overlapped,
                   rasterVars, inputVars, scanVars, fillVars,
                   boundsVars, cacheVars, polyVars, tripVars>>

NextMap ==
    \/ StartGetFloodDepthMap
    \/ AnswerWithExistingPng
    \/ GenerateAndAnswer
    \/ WriteTif

SpecMap == InitMap /\ [][NextMap]_vars

\* C29: getFloodDepthMap is stable across its two paths: with the input files
\* unchanged, metadata.json without bounds or absent included, the call that
\* generates the PNG and every later call that finds it return the same
\* bounds, min_depth, max_depth and legend values.
C29_MapStableAcrossPaths ==
    \A i, j \in DOMAIN mapLog :
        (/\ i < j
         /\ mapLog[i].path = "generated"
         /\ mapLog[j].path = "existing"
         /\ tifs[mapLog[i].version] = tifs[mapLog[j].version])
            => /\ mapLog[j].bounds = mapLog[i].bounds
               /\ mapLog[j].min_depth = mapLog[i].min_depth
               /\ mapLog[j].max_depth = mapLog[i].max_depth
               /\ mapLog[j].legend = mapLog[i].legend

C29_WithMetadataBounds ==
    metadataFile.kind = "bounds" => C29_MapStableAcrossPaths


\* min, max and legend of an answer are those of the TIF content it read
FromTifRead(answer) ==
    LET tif == tifs[answer.version]
        tifData == readFloodDepthData(tif.data, tif.noDataValue)
    IN /\ answer.min_depth = tifData.min
       /\ answer.max_depth = tifData.max
       /\ answer.legend = legendValues(tifData.min, tifData.max)

\* C30: the heatmap PNG of a basename is generated at most once: once it
\* exists no later call rewrites it, even after the source TIF has changed,
\* while min, max and legend of every answer are recomputed from the TIF
\* that call read.
C30_PngGeneratedOnce ==
    /\ png.writes <= 1
    /\ Cardinality({i \in DOMAIN mapLog : mapLog[i].path = "generated"}) <= 1
    /\ \A i \in DOMAIN mapLog : FromTifRead(mapLog[i])

C30_CallsOneAfterAnother == ~overlapped => C30_PngGeneratedOnce

====
